---- MODULE Spec2Model ----
(***************************************************************************)
(* Sparse state trie engine: the driver task (SparseTrieTask::run), the    *)
(* per-batch update (update_sparse_trie) and the sparse state trie         *)
(* (SparseStateTrie) it works on.                                          *)
(*                                                                         *)
(* Keys are one nibble long and nibbles range over {0, 1}, so a trie is    *)
(* the empty root, one leaf at the root carrying its key as suffix, or a   *)
(* branch at the root with the two children at paths <<0>> and <<1>>.      *)
(* Hashes are modelled collision free: the hash of a node is a record of   *)
(* what it hashes.                                                         *)
(***************************************************************************)
EXTENDS Integers, Sequences, FiniteSets, TLC

\* ------------------------------------------------------------------ bounds

\* Number of updates the producer side may send before it drops its sender.
MaxUpdates == 2

\* Number of calls made on a sparse state trie through its public methods.
MaxOps == 3

\* Number of calls made on a sparse state trie that is asked for its root
\* and its delta.
MaxRootOps == 4

\* Number of segments configured for pruning, at most.
MaxSegments == 2

\* Number of iterators taken in turn over a ring of tables.
MaxCycles == 2

\* Largest value written to a storage slot.
MaxValue == 2

\* ------------------------------------------------------------- basic data

Nibs == {0, 1}
Addrs == {0, 1}
Slots == {0, 1}

EmptyMap == [x \in {} |-> x]

MapPut(m, k, v) == [x \in DOMAIN m \cup {k} |-> IF x = k THEN v ELSE m[x]]

MapDel(m, k) == [x \in DOMAIN m \ {k} |-> m[x]]

\* Nibbles::unpack of a key: its nibble path.
Unpack(key) == <<key>>

Sibling(n) == CHOOSE m \in Nibs : m # n

\* ------------------------------------------------------------- trie nodes

EmptyRootNode == [kind |-> "EmptyRoot"]

LeafNode(key, value) == [kind |-> "Leaf", key |-> key, value |-> value]

\* children: state_mask -> hash of the child
BranchNode(children) == [kind |-> "Branch", children |-> children]

ExtensionNode(key, child) == [kind |-> "Extension", key |-> key, child |-> child]

EMPTY_ROOT_HASH == [h |-> "empty"]

LeafHash(key, value) == [h |-> "leaf", key |-> key, value |-> value]

BranchHash(children) == [h |-> "branch", children |-> children]

\* A TrieAccount {info, storage_root} and its RLP encoding: the list of the
\* fields. Decoding gives the fields back, and fails on anything else.
TrieAccount(info, storage_root) == [info |-> info, storage_root |-> storage_root]

EncodeAccount(acct) == <<acct.info, acct.storage_root>>

IsAccountRlp(value) == Len(value) = 2

DecodeAccount(value) == [info |-> value[1], storage_root |-> value[2]]

DefaultTrieAccount == TrieAccount(0, EMPTY_ROOT_HASH)

\* alloy_rlp::encode_fixed_size of a storage value
EncodeValue(v) == <<v>>

\* ------------------------------------------------- single sparse trie

SEmpty == [kind |-> "Empty"]
SHash(h) == [kind |-> "Hash", hash |-> h]
SLeaf(key) == [kind |-> "Leaf", key |-> key]
SBranch(mask) == [kind |-> "Branch", mask |-> mask]

BlindTrie == [kind |-> "Blind"]

\* A revealed trie; wiped and removed are its pending delta: the wiped flag
\* and the paths of the branch nodes removed since the delta was taken.
RevealedTrie(nodes, values, wiped) ==
    [kind |-> "Revealed", nodes |-> nodes, values |-> values, wiped |-> wiped,
     removed |-> {}]

\* The trie with the branch nodes that t has removed so far.
KeepRemoved(t, next) == [next EXCEPT !.removed = t.removed]

IsRevealed(t) == t.kind = "Revealed"

Ok(t) == [trie |-> t, err |-> "Ok"]
Fail(t, e) == [trie |-> t, err |-> e]

\* A revealed trie holding only the given root node.
WithRoot(node) ==
    CASE node.kind = "EmptyRoot" ->
           RevealedTrie(<<>> :> SEmpty, EmptyMap, FALSE)
      [] node.kind = "Leaf" ->
           RevealedTrie(<<>> :> SLeaf(node.key), node.key :> node.value, FALSE)
      [] node.kind = "Branch" ->
           RevealedTrie(
               [p \in {<<>>} \cup {<<n>> : n \in DOMAIN node.children} |->
                   IF p = <<>> THEN SBranch(DOMAIN node.children)
                   ELSE SHash(node.children[p[1]])],
               EmptyMap, FALSE)
      [] OTHER ->
           RevealedTrie(<<>> :> SHash(node.child), EmptyMap, FALSE)

\* reveal_root: Blind -> Revealed with the root; a revealed trie is kept.
RevealRoot(t, node) == IF IsRevealed(t) THEN t ELSE WithRoot(node)

\* reveal_node at a non-root path of a revealed trie: the path must be
\* reachable (a child of the revealed branch); a blinded child is replaced
\* by the node, a child that is already revealed is left alone.
RevealNode(t, path, node) ==
    IF path \notin DOMAIN t.nodes THEN Fail(t, "Unreachable")
    ELSE IF t.nodes[path].kind # "Hash" THEN Ok(t)
    ELSE IF node.kind = "Leaf"
         THEN Ok([t EXCEPT !.nodes = MapPut(t.nodes, path, SLeaf(node.key)),
                           !.values = MapPut(t.values, path \o node.key, node.value)])
         ELSE Ok(t)

RECURSIVE RevealNodes(_, _)
\* reveal_nodes: the nodes (a sequence of <<path, node>>) one after the other.
RevealNodes(t, nodes) ==
    IF nodes = <<>> THEN Ok(t)
    ELSE LET r == RevealNode(t, nodes[1][1], nodes[1][2])
         IN  IF r.err # "Ok" THEN r ELSE RevealNodes(r.trie, Tail(nodes))

\* update_leaf at a full path; the node provider has no node to give, so a
\* blinded node on the way fails with Blind.
UpdateLeaf(t, path, value) ==
    IF ~IsRevealed(t) THEN Fail(t, "Blind")
    ELSE LET root == t.nodes[<<>>]
             n == path[1]
         IN  CASE root.kind = "Empty" ->
                    Ok(KeepRemoved(t, RevealedTrie(<<>> :> SLeaf(path), path :> value,
                                                   t.wiped)))
               [] root.kind = "Leaf" /\ root.key = path ->
                    Ok([t EXCEPT !.values = MapPut(t.values, path, value)])
               [] root.kind = "Leaf" /\ root.key # path ->
                    Ok(KeepRemoved(t, RevealedTrie(
                         (<<>> :> SBranch(Nibs)) @@ (root.key :> SLeaf(<<>>))
                             @@ (path :> SLeaf(<<>>)),
                         MapPut(t.values, path, value), t.wiped)))
               [] root.kind = "Branch" /\ t.nodes[path].kind = "Leaf" ->
                    Ok([t EXCEPT !.values = MapPut(t.values, path, value)])
               [] OTHER -> Fail(t, "Blind")

\* remove_leaf at a full path; a branch left with one child collapses into
\* that child, which must be revealed for it, and is recorded as removed.
RemoveLeaf(t, path) ==
    IF ~IsRevealed(t) THEN Fail(t, "Blind")
    ELSE LET root == t.nodes[<<>>]
             sib == <<Sibling(path[1])>>
         IN  CASE root.kind = "Empty" -> Ok(t)
               [] root.kind = "Leaf" /\ root.key = path ->
                    Ok(KeepRemoved(t, RevealedTrie(<<>> :> SEmpty, EmptyMap, t.wiped)))
               [] root.kind = "Leaf" /\ root.key # path -> Ok(t)
               [] root.kind = "Branch" /\ t.nodes[path].kind = "Leaf"
                     /\ t.nodes[sib].kind = "Leaf" ->
                    Ok([RevealedTrie(<<>> :> SLeaf(sib), sib :> t.values[sib], t.wiped)
                          EXCEPT !.removed = t.removed \cup {<<>>}])
               [] OTHER -> Fail(t, "Blind")

\* wipe: all content discarded, the pending delta is the wiped flag alone.
Wipe(t) ==
    IF ~IsRevealed(t) THEN Fail(t, "Blind")
    ELSE Ok(RevealedTrie(<<>> :> SEmpty, EmptyMap, TRUE))

\* hash of the node at a child path of a revealed trie
ChildHash(t, p) ==
    IF t.nodes[p].kind = "Hash" THEN t.nodes[p].hash
    ELSE LeafHash(t.nodes[p].key, t.values[p \o t.nodes[p].key])

\* root hash of a revealed trie
RootHash(t) ==
    LET root == t.nodes[<<>>]
    IN  CASE root.kind = "Empty" -> EMPTY_ROOT_HASH
          [] root.kind = "Hash" -> root.hash
          [] root.kind = "Leaf" -> LeafHash(root.key, t.values[root.key])
          [] OTHER -> BranchHash([n \in root.mask |-> ChildHash(t, <<n>>)])

\* get_leaf_value: the value of the leaf at a full path, <<>> for none
GetLeafValue(t, path) ==
    IF IsRevealed(t) /\ path \in DOMAIN t.values THEN <<t.values[path]>> ELSE <<>>

\* ------------------------------------------------ filter_map_revealed_nodes

\* The orders in which a map with the keys S may be iterated.
Perms(S) ==
    {s \in [1..Cardinality(S) -> S] : \A i, j \in 1..Cardinality(S) : i # j => s[i] # s[j]}

\* Faulty variant of NewNodesOf: the children are not counted.
NewNodesOfItself(node) == 1

\* What a non-skipped node adds to new_nodes: itself and its children.
NewNodesOf(node) ==
    CASE node.kind = "Branch" -> 1 + Cardinality(DOMAIN node.children)
      [] node.kind = "Extension" -> 2
      [] OTHER -> 1

FilterInit(revealed_nodes) ==
    [root_node |-> <<>>, nodes |-> <<>>, new_nodes |-> 0, total_nodes |-> 0,
     skipped_nodes |-> 0, revealed_nodes |-> revealed_nodes, err |-> "Ok"]

\* Faulty variant of InvalidRoot: an empty root is refused also when it is
\* the only entry.
InvalidRootAlone(node, proof_nodes_len) == node.kind = "EmptyRoot"

\* The sanity check of the root entry: an empty root with other entries.
InvalidRoot(node, proof_nodes_len) == node.kind = "EmptyRoot" /\ proof_nodes_len > 1

RECURSIVE FilterLoop(_, _, _)
\* The loop body of filter_map_revealed_nodes over the entries in iteration
\* order; revealed_nodes is updated in place, also when the call fails.
FilterLoop(proof_nodes, order, acc) ==
    IF order = <<>> THEN acc
    ELSE LET path == Head(order)
             node == proof_nodes[path]
             is_root == path = <<>>
             counted == [acc EXCEPT !.total_nodes = @ + 1]
         IN  IF ~is_root /\ path \in acc.revealed_nodes
             THEN FilterLoop(proof_nodes, Tail(order),
                             [counted EXCEPT !.skipped_nodes = @ + 1])
             ELSE LET kept == [counted EXCEPT
                                  !.revealed_nodes = IF is_root THEN @ ELSE @ \cup {path},
                                  !.new_nodes = @ + NewNodesOf(node)]
                  IN  IF is_root
                      THEN IF InvalidRoot(node, Cardinality(DOMAIN proof_nodes))
                           THEN [kept EXCEPT !.err = "InvalidRootNode"]
                           ELSE FilterLoop(proof_nodes, Tail(order),
                                           [kept EXCEPT !.root_node = <<node>>])
                      ELSE FilterLoop(proof_nodes, Tail(order),
                                      [kept EXCEPT !.nodes = Append(@, <<path, node>>)])

\* Faulty variant of filter_map_revealed_nodes: the path of the root entry
\* is recorded as revealed too.
filter_map_revealed_nodes_root_recorded(proof_nodes, revealed_nodes, order) ==
    [FilterLoop(proof_nodes, order, FilterInit(revealed_nodes)) EXCEPT
        !.revealed_nodes = @ \cup DOMAIN proof_nodes]

\* Faulty variant of filter_map_revealed_nodes: a node is kept although
\* its path is revealed already.
filter_map_revealed_nodes_no_skip(proof_nodes, revealed_nodes, order) ==
    [FilterLoop(proof_nodes, order, FilterInit({})) EXCEPT
        !.revealed_nodes = @ \cup revealed_nodes]

\* filter_map_revealed_nodes, the entries met in the given order
filter_map_revealed_nodes(proof_nodes, revealed_nodes, order) ==
    FilterLoop(proof_nodes, order, FilterInit(revealed_nodes))

\* ------------------------------------------------------ sparse state trie

\* SparseStateTrie::default; account_rlp_buf holds the bytes of the account
\* encoded last, <<>> when it is empty.
DefaultStateTrie ==
    [state |-> BlindTrie,
     revealed_account_paths |-> {},
     tries |-> EmptyMap,
     revealed_paths |-> EmptyMap,
     cleared_tries |-> <<>>,
     cleared_revealed_paths |-> <<>>,
     account_rlp_buf |-> <<>>]

is_account_revealed(t, account) == Unpack(account) \in t.revealed_account_paths

get_account_value(t, account) == GetLeafValue(t.state, Unpack(account))

\* Faulty variant of take_storage_trie: the trie is handed out and stays
\* in the container as well.
take_storage_trie_shared(t, address) ==
    IF address \in DOMAIN t.tries
    THEN [trie |-> t, taken |-> <<t.tries[address]>>]
    ELSE [trie |-> t, taken |-> <<>>]

\* take_storage_trie: the trie is removed from the container; <<>> for none
take_storage_trie(t, address) ==
    IF address \in DOMAIN t.tries
    THEN [trie |-> [t EXCEPT !.tries = MapDel(t.tries, address)], taken |-> <<t.tries[address]>>]
    ELSE [trie |-> t, taken |-> <<>>]

insert_storage_trie(t, address, storage_trie) ==
    [t EXCEPT !.tries = MapPut(t.tries, address, storage_trie)]

\* Faulty variant of take_or_create_trie: the trie of the account is
\* dropped and a new one is made.
take_or_create_trie_anew(t, account) ==
    [trie |-> [t EXCEPT !.tries = MapDel(t.tries, account)], taken |-> BlindTrie]

\* StorageTries::take_or_create_trie
take_or_create_trie(t, account) ==
    IF account \in DOMAIN t.tries
    THEN [trie |-> [t EXCEPT !.tries = MapDel(t.tries, account)], taken |-> t.tries[account]]
    ELSE IF t.cleared_tries # <<>>
    THEN [trie |-> [t EXCEPT !.cleared_tries = SubSeq(@, 1, Len(@) - 1)],
          taken |-> t.cleared_tries[Len(t.cleared_tries)]]
    ELSE [trie |-> t, taken |-> BlindTrie]

\* StorageTries::take_or_create_revealed_paths
take_or_create_revealed_paths(t, account) ==
    IF account \in DOMAIN t.revealed_paths
    THEN [trie |-> [t EXCEPT !.revealed_paths = MapDel(t.revealed_paths, account)],
          taken |-> t.revealed_paths[account]]
    ELSE IF t.cleared_revealed_paths # <<>>
    THEN [trie |-> [t EXCEPT !.cleared_revealed_paths = SubSeq(@, 1, Len(@) - 1)],
          taken |-> t.cleared_revealed_paths[Len(t.cleared_revealed_paths)]]
    ELSE [trie |-> t, taken |-> {}]

\* reveal_decoded_account_multiproof
reveal_decoded_account_multiproof(t, account_subtree, order) ==
    LET f == filter_map_revealed_nodes(account_subtree, t.revealed_account_paths, order)
        t1 == [t EXCEPT !.revealed_account_paths = f.revealed_nodes]
    IN  IF f.err # "Ok" THEN Fail(t1, f.err)
        ELSE IF f.root_node = <<>> THEN Ok(t1)
        ELSE LET r == RevealNodes(RevealRoot(t.state, f.root_node[1]), f.nodes)
             IN  [trie |-> [t1 EXCEPT !.state = r.trie], err |-> r.err]

\* reveal_decoded_storage_multiproof_inner, on a trie and a path set that
\* were taken out of the container
reveal_decoded_storage_multiproof_inner(storage_subtree, revealed_nodes, trie, order) ==
    LET f == filter_map_revealed_nodes(storage_subtree, revealed_nodes, order)
    IN  IF f.err # "Ok"
        THEN [revealed_nodes |-> f.revealed_nodes, trie |-> trie, err |-> f.err]
        ELSE IF f.root_node = <<>>
        THEN [revealed_nodes |-> f.revealed_nodes, trie |-> trie, err |-> "Ok"]
        ELSE LET r == RevealNodes(RevealRoot(trie, f.root_node[1]), f.nodes)
             IN  [revealed_nodes |-> f.revealed_nodes, trie |-> r.trie, err |-> r.err]

\* Faulty variant of update_account_leaf: the path is not recorded.
update_account_leaf_unrecorded(t, path, value) ==
    LET r == UpdateLeaf(t.state, path, value)
    IN  [trie |-> [t EXCEPT !.state = r.trie], err |-> r.err]

\* update_account_leaf: the path joins the revealed account paths before
\* the leaf is written.
update_account_leaf(t, path, value) ==
    LET t1 == [t EXCEPT !.revealed_account_paths = @ \cup {path}]
        r == UpdateLeaf(t.state, path, value)
    IN  [trie |-> [t1 EXCEPT !.state = r.trie], err |-> r.err]

\* remove_account_leaf
remove_account_leaf(t, path) ==
    LET r == RemoveLeaf(t.state, path)
    IN  [trie |-> [t EXCEPT !.state = r.trie], err |-> r.err]

\* Faulty variant of update_account: the storage root of an existing leaf
\* is kept, whatever the storage trie holds.
update_account_keeps_root(t, address, account) ==
    LET nibbles == Unpack(address)
        value == get_account_value(t, address)
    IN  IF address \in DOMAIN t.tries /\ ~IsRevealed(t.tries[address]) THEN Fail(t, "Blind")
        ELSE IF address \notin DOMAIN t.tries /\ ~is_account_revealed(t, address)
        THEN Fail(t, "Blind")
        ELSE LET storage_root ==
                     IF value # <<>> THEN DecodeAccount(value[1]).storage_root
                     ELSE IF address \in DOMAIN t.tries THEN RootHash(t.tries[address])
                     ELSE EMPTY_ROOT_HASH
             IN  IF account = 0 /\ storage_root = EMPTY_ROOT_HASH
                 THEN remove_account_leaf(t, nibbles)
                 ELSE LET rlp == EncodeAccount(TrieAccount(account, storage_root))
                      IN  update_account_leaf([t EXCEPT !.account_rlp_buf = <<rlp>>],
                                              nibbles, rlp)

\* Faulty variant of update_account: an account that is not revealed and
\* has no storage trie is taken for a new account.
update_account_unrevealed_new(t, address, account) ==
    LET nibbles == Unpack(address)
        value == get_account_value(t, address)
    IN  IF address \in DOMAIN t.tries /\ ~IsRevealed(t.tries[address]) THEN Fail(t, "Blind")
        ELSE LET storage_root ==
                     IF address \in DOMAIN t.tries THEN RootHash(t.tries[address])
                     ELSE IF value # <<>> THEN DecodeAccount(value[1]).storage_root
                     ELSE EMPTY_ROOT_HASH
             IN  IF account = 0 /\ storage_root = EMPTY_ROOT_HASH
                 THEN remove_account_leaf(t, nibbles)
                 ELSE LET rlp == EncodeAccount(TrieAccount(account, storage_root))
                      IN  update_account_leaf([t EXCEPT !.account_rlp_buf = <<rlp>>],
                                              nibbles, rlp)

\* Faulty variant of update_account: an empty account is removed whatever
\* its storage root.
update_account_removes_empty_info(t, address, account) ==
    LET nibbles == Unpack(address)
        value == get_account_value(t, address)
    IN  IF address \in DOMAIN t.tries /\ ~IsRevealed(t.tries[address]) THEN Fail(t, "Blind")
        ELSE IF address \notin DOMAIN t.tries /\ ~is_account_revealed(t, address)
        THEN Fail(t, "Blind")
        ELSE LET storage_root ==
                     IF address \in DOMAIN t.tries THEN RootHash(t.tries[address])
                     ELSE IF value # <<>> THEN DecodeAccount(value[1]).storage_root
                     ELSE EMPTY_ROOT_HASH
             IN  IF account = 0
                 THEN remove_account_leaf(t, nibbles)
                 ELSE LET rlp == EncodeAccount(TrieAccount(account, storage_root))
                      IN  update_account_leaf([t EXCEPT !.account_rlp_buf = <<rlp>>],
                                              nibbles, rlp)

\* update_account: the storage root comes from the storage trie, else from
\* the leaf of a revealed account, else the call fails with Blind.
update_account(t, address, account) ==
    LET nibbles == Unpack(address)
        value == get_account_value(t, address)
    IN  IF address \in DOMAIN t.tries /\ ~IsRevealed(t.tries[address]) THEN Fail(t, "Blind")
        ELSE IF address \notin DOMAIN t.tries /\ ~is_account_revealed(t, address)
        THEN Fail(t, "Blind")
        ELSE IF address \notin DOMAIN t.tries /\ value # <<>> /\ ~IsAccountRlp(value[1])
        THEN Fail(t, "Decode")
        ELSE LET storage_root ==
                     IF address \in DOMAIN t.tries THEN RootHash(t.tries[address])
                     ELSE IF value # <<>> THEN DecodeAccount(value[1]).storage_root
                     ELSE EMPTY_ROOT_HASH
             IN  IF account = 0 /\ storage_root = EMPTY_ROOT_HASH
                 THEN remove_account_leaf(t, nibbles)
                 ELSE LET rlp == EncodeAccount(TrieAccount(account, storage_root))
                      IN  update_account_leaf([t EXCEPT !.account_rlp_buf = <<rlp>>],
                                              nibbles, rlp)

\* Faulty variant of update_account_storage_root: the leaf is written also
\* when the account it holds is the default account.
update_account_storage_root_keeps_leaf(t, address) ==
    LET value == get_account_value(t, address)
    IN  IF ~is_account_revealed(t, address) THEN Fail(t, "Blind")
        ELSE IF value = <<>> THEN Ok(t)
        ELSE IF ~IsAccountRlp(value[1]) THEN Fail(t, "Decode")
        ELSE IF address \in DOMAIN t.tries /\ ~IsRevealed(t.tries[address])
        THEN Fail(t, "Blind")
        ELSE LET storage_root ==
                     IF address \in DOMAIN t.tries THEN RootHash(t.tries[address])
                     ELSE EMPTY_ROOT_HASH
                 rlp == EncodeAccount(TrieAccount(DecodeAccount(value[1]).info, storage_root))
             IN  update_account_leaf([t EXCEPT !.account_rlp_buf = <<rlp>>],
                                     Unpack(address), rlp)

\* update_account_storage_root
update_account_storage_root(t, address) ==
    LET value == get_account_value(t, address)
    IN  IF ~is_account_revealed(t, address) THEN Fail(t, "Blind")
        ELSE IF value = <<>> THEN Ok(t)
        ELSE IF ~IsAccountRlp(value[1]) THEN Fail(t, "Decode")
        ELSE IF address \in DOMAIN t.tries /\ ~IsRevealed(t.tries[address])
        THEN Fail(t, "Blind")
        ELSE LET storage_root ==
                     IF address \in DOMAIN t.tries THEN RootHash(t.tries[address])
                     ELSE EMPTY_ROOT_HASH
                 trie_account == TrieAccount(DecodeAccount(value[1]).info, storage_root)
             IN  IF trie_account = DefaultTrieAccount
                 THEN remove_account_leaf(t, Unpack(address))
                 ELSE LET rlp == EncodeAccount(trie_account)
                      IN  update_account_leaf([t EXCEPT !.account_rlp_buf = <<rlp>>],
                                              Unpack(address), rlp)

\* take_updates of a revealed trie: the pending delta is handed out and a
\* new, empty one is begun. No branch of a trie this small is kept in the
\* database trie, so updated_nodes is always empty.
TakeUpdates(t) ==
    [trie |-> [t EXCEPT !.wiped = FALSE, !.removed = {}],
     updates |-> [wiped |-> t.wiped, updated_nodes |-> EmptyMap, removed_nodes |-> t.removed]]

\* StorageTrieUpdates of the delta of a storage trie, and its is_empty.
StorageTrieUpdates(updates) ==
    [is_deleted |-> updates.wiped, storage_nodes |-> updates.updated_nodes,
     removed_nodes |-> updates.removed_nodes]

StorageUpdatesIsEmpty(u) ==
    ~u.is_deleted /\ u.storage_nodes = EmptyMap /\ u.removed_nodes = {}

\* Faulty variant of storage_trie_updates: is_deleted is set for every
\* storage trie that has a delta.
storage_trie_updates_all_deleted(t) ==
    LET taken == [a \in DOMAIN t.tries |->
                     StorageTrieUpdates(TakeUpdates(t.tries[a]).updates)]
    IN  [a \in {x \in DOMAIN taken : ~StorageUpdatesIsEmpty(taken[x])} |->
            [taken[a] EXCEPT !.is_deleted = TRUE]]

\* Faulty variant of storage_trie_updates: the empty deltas are returned
\* too.
storage_trie_updates_unfiltered(t) ==
    [a \in DOMAIN t.tries |-> StorageTrieUpdates(TakeUpdates(t.tries[a]).updates)]

\* storage_trie_updates: the delta of every storage trie is taken (every
\* storage trie must be revealed, the call panics on a Blind one); the
\* empty ones are left out of the map returned.
storage_trie_updates(t) ==
    LET taken == [a \in DOMAIN t.tries |->
                     StorageTrieUpdates(TakeUpdates(t.tries[a]).updates)]
    IN  [a \in {x \in DOMAIN taken : ~StorageUpdatesIsEmpty(taken[x])} |-> taken[a]]

root_with_updates_panics(t) == \E a \in DOMAIN t.tries : ~IsRevealed(t.tries[a])

\* Faulty variant of revealed_trie_mut: a Blind account trie is an error.
revealed_trie_mut_blind(t) == [t |-> t.state, err |-> IF IsRevealed(t.state) THEN "Ok" ELSE "Blind"]

\* revealed_trie_mut: a Blind account trie is revealed from the root node
\* of the account node provider, which has none to give: the empty root.
revealed_trie_mut(t) == [t |-> RevealRoot(t.state, EmptyRootNode), err |-> "Ok"]

\* root_with_updates on the sparse state trie: the storage deltas are
\* drained first, then the account trie is revealed if need be, then its
\* root is computed and its delta taken.
root_with_updates(t) ==
    LET drained == [t EXCEPT !.tries = [a \in DOMAIN t.tries |->
                                           TakeUpdates(t.tries[a]).trie]]
        revealed == revealed_trie_mut(t)
    IN  IF revealed.err # "Ok"
        THEN [trie |-> drained, err |-> revealed.err, state_root |-> <<>>,
              trie_updates |-> <<>>]
        ELSE LET taken == TakeUpdates(revealed.t)
             IN  [trie |-> [drained EXCEPT !.state = taken.trie],
                  err |-> "Ok",
                  state_root |-> RootHash(revealed.t),
                  trie_updates |-> [account_nodes |-> taken.updates.updated_nodes,
                                    removed_nodes |-> taken.updates.removed_nodes,
                                    storage_tries |-> storage_trie_updates(t)]]

\* ------------------------------------------------------ update batches

\* A SparseTrieUpdate {state: {accounts, storages}, multiproof}.
Update(accounts, storages, account_subtree, storage_subtrees) ==
    [state |-> [accounts |-> accounts, storages |-> storages],
     multiproof |-> [account_subtree |-> account_subtree, storages |-> storage_subtrees]]

\* Map union in which the right side overwrites.
Overwrite(l, r) == [x \in DOMAIN l \cup DOMAIN r |-> IF x \in DOMAIN r THEN r[x] ELSE l[x]]

\* Map union in which an entry that is already there is kept.
UnionKeep(l, r) == [x \in DOMAIN l \cup DOMAIN r |-> IF x \in DOMAIN l THEN l[x] ELSE r[x]]

\* SparseTrieUpdate::extend
Extend(u, next) ==
    Update(
        Overwrite(u.state.accounts, next.state.accounts),
        [a \in DOMAIN u.state.storages \cup DOMAIN next.state.storages |->
            IF a \notin DOMAIN next.state.storages THEN u.state.storages[a]
            ELSE IF a \notin DOMAIN u.state.storages THEN next.state.storages[a]
            ELSE [wiped |-> u.state.storages[a].wiped \/ next.state.storages[a].wiped,
                  storage |-> Overwrite(u.state.storages[a].storage,
                                        next.state.storages[a].storage)]],
        UnionKeep(u.multiproof.account_subtree, next.multiproof.account_subtree),
        [a \in DOMAIN u.multiproof.storages \cup DOMAIN next.multiproof.storages |->
            IF a \notin DOMAIN next.multiproof.storages THEN u.multiproof.storages[a]
            ELSE IF a \notin DOMAIN u.multiproof.storages THEN next.multiproof.storages[a]
            ELSE UnionKeep(u.multiproof.storages[a], next.multiproof.storages[a])])

RECURSIVE ExtendAll(_)
\* The left-to-right extend of a non-empty sequence of updates.
ExtendAll(us) ==
    IF Len(us) = 1 THEN us[1]
    ELSE Extend(ExtendAll(SubSeq(us, 1, Len(us) - 1)), us[Len(us)])

\* ------------------------------------------- update_sparse_trie, the parts

RECURSIVE ApplySlots(_, _, _)
\* The slot loop of a storage worker: a zero value removes the leaf, any
\* other value writes it; the first failure ends the loop.
ApplySlots(storage_trie, storage, order) ==
    IF order = <<>> THEN Ok(storage_trie)
    ELSE LET slot == Head(order)
             r == IF storage[slot] = 0
                  THEN RemoveLeaf(storage_trie, Unpack(slot))
                  ELSE UpdateLeaf(storage_trie, Unpack(slot), EncodeValue(storage[slot]))
         IN  IF r.err # "Ok" THEN r ELSE ApplySlots(r.trie, storage, Tail(order))

\* A variant of the worker that makes a revealed empty trie when it was
\* given none.
StorageWorker_makes_trie(address, storage, taken, order) ==
    LET given == IF taken = <<>> THEN WithRoot(EmptyRootNode) ELSE taken[1]
        w == IF storage.wiped THEN Wipe(given) ELSE Ok(given)
        r == IF w.err # "Ok" THEN w ELSE ApplySlots(w.trie, storage.storage, order)
    IN  IF r.err # "Ok" THEN [ok |-> FALSE, err |-> r.err]
        ELSE [ok |-> TRUE, address |-> address, storage_trie |-> r.trie]

\* A variant of the worker that applies the slots first and wipes last.
StorageWorker_wipes_last(address, storage, taken, order) ==
    IF taken = <<>> THEN [ok |-> FALSE, err |-> "Blind"]
    ELSE LET r == ApplySlots(taken[1], storage.storage, order)
             w == IF r.err # "Ok" THEN r
                  ELSE IF storage.wiped THEN Wipe(r.trie) ELSE r
         IN  IF w.err # "Ok" THEN [ok |-> FALSE, err |-> w.err]
             ELSE [ok |-> TRUE, address |-> address, storage_trie |-> w.trie]

\* One storage worker: the result it sends, Ok((address, storage_trie)) or
\* Err(e). A failed worker drops the trie it was given.
StorageWorker(address, storage, taken, order) ==
    IF taken = <<>> THEN [ok |-> FALSE, err |-> "Blind"]
    ELSE LET w == IF storage.wiped THEN Wipe(taken[1]) ELSE Ok(taken[1])
             r == IF w.err # "Ok" THEN w ELSE ApplySlots(w.trie, storage.storage, order)
         IN  IF r.err # "Ok" THEN [ok |-> FALSE, err |-> r.err]
             ELSE [ok |-> TRUE, address |-> address, storage_trie |-> r.trie]

\* The body of the fold loop for an Ok result: the trie is reinserted, then
\* the account leaf is updated together with a pending account update, or
\* only its storage root when the account is revealed, or not at all.
\* `called` is the method of the trie that the body called on the account.
\* A variant of the body that leaves the account update in the batch.
FoldResult_keeps_update(t, accounts, result) ==
    LET t1 == insert_storage_trie(t, result.address, result.storage_trie)
        a == result.address
    IN  IF a \in DOMAIN accounts
        THEN LET r == update_account(t1, a, IF accounts[a] = <<>> THEN 0 ELSE accounts[a][1])
             IN  [trie |-> r.trie, err |-> r.err, accounts |-> accounts,
                  wrote |-> {a}, called |-> "update_account"]
        ELSE IF is_account_revealed(t1, a)
        THEN LET r == update_account_storage_root(t1, a)
             IN  [trie |-> r.trie, err |-> r.err, accounts |-> accounts, wrote |-> {a},
                  called |-> "update_account_storage_root"]
        ELSE [trie |-> t1, err |-> "Ok", accounts |-> accounts, wrote |-> {},
              called |-> "none"]

\* A variant of the body that asks first whether the account is revealed.
FoldResult_revealed_first(t, accounts, result) ==
    LET t1 == insert_storage_trie(t, result.address, result.storage_trie)
        a == result.address
    IN  IF is_account_revealed(t1, a)
        THEN LET r == update_account_storage_root(t1, a)
             IN  [trie |-> r.trie, err |-> r.err, accounts |-> accounts, wrote |-> {a},
                  called |-> "update_account_storage_root"]
        ELSE IF a \in DOMAIN accounts
        THEN LET r == update_account(t1, a, IF accounts[a] = <<>> THEN 0 ELSE accounts[a][1])
             IN  [trie |-> r.trie, err |-> r.err, accounts |-> MapDel(accounts, a),
                  wrote |-> {a}, called |-> "update_account"]
        ELSE [trie |-> t1, err |-> "Ok", accounts |-> accounts, wrote |-> {},
              called |-> "none"]

FoldResult(t, accounts, result) ==
    LET t1 == insert_storage_trie(t, result.address, result.storage_trie)
        a == result.address
    IN  IF a \in DOMAIN accounts
        THEN LET r == update_account(t1, a, IF accounts[a] = <<>> THEN 0 ELSE accounts[a][1])
             IN  [trie |-> r.trie, err |-> r.err, accounts |-> MapDel(accounts, a),
                  wrote |-> {a}, called |-> "update_account"]
        ELSE IF is_account_revealed(t1, a)
        THEN LET r == update_account_storage_root(t1, a)
             IN  [trie |-> r.trie, err |-> r.err, accounts |-> accounts, wrote |-> {a},
                  called |-> "update_account_storage_root"]
        ELSE [trie |-> t1, err |-> "Ok", accounts |-> accounts, wrote |-> {},
              called |-> "none"]

\* ------------------------------------------------------------- the inputs

AcctVal(info, storage_root) == EncodeAccount(TrieAccount(info, storage_root))

\* A storage trie holding slot 0 alone: its root node and its root hash.
StorLeaf0 == LeafNode(<<0>>, EncodeValue(1))
StorRoot0 == LeafHash(<<0>>, EncodeValue(1))

\* Account trie with both accounts: the branch and its two leaves.
AccBranchProof ==
    (<<>> :> BranchNode((0 :> LeafHash(<<>>, AcctVal(1, StorRoot0)))
                        @@ (1 :> LeafHash(<<>>, AcctVal(1, EMPTY_ROOT_HASH)))))
    @@ (<<0>> :> LeafNode(<<>>, AcctVal(1, StorRoot0)))
    @@ (<<1>> :> LeafNode(<<>>, AcctVal(1, EMPTY_ROOT_HASH)))

Mutation(wiped, storage) == [wiped |-> wiped, storage |-> storage]

\* Both accounts and their storage revealed; a slot written in each storage
\* and an account update for account 0.
UpdRevealBoth ==
    Update((0 :> <<1>>),
           (0 :> Mutation(FALSE, (1 :> 1))) @@ (1 :> Mutation(FALSE, (0 :> 1))),
           AccBranchProof,
           (0 :> (<<>> :> StorLeaf0)) @@ (1 :> (<<>> :> EmptyRootNode)))

\* No proof; the storage of account 0 wiped, account 1 destroyed.
UpdWipe ==
    Update((1 :> <<>>), (0 :> Mutation(TRUE, EmptyMap)), EmptyMap, EmptyMap)

\* A storage proof for account 0 whose root is the empty root although it
\* has more nodes, and a good one for account 1.
UpdBadProof ==
    Update(EmptyMap, EmptyMap, EmptyMap,
           (0 :> ((<<>> :> EmptyRootNode) @@ (<<0>> :> LeafNode(<<>>, EncodeValue(1)))))
           @@ (1 :> (<<>> :> StorLeaf0)))

\* The account trie is the single leaf of account 0; its only slot is
\* removed and the batch has no account update for it.
UpdStorageOnly ==
    Update(EmptyMap, (0 :> Mutation(FALSE, (0 :> 0))),
           (<<>> :> LeafNode(<<0>>, AcctVal(1, StorRoot0))),
           (0 :> (<<>> :> StorLeaf0)))

\* A storage proof for account 1 that carries no root entry.
UpdRootless ==
    Update(EmptyMap, EmptyMap, EmptyMap, (1 :> EmptyMap))

\* No proof; slot 0 written in the storage of both accounts.
UpdWriteBoth ==
    Update(EmptyMap,
           (0 :> Mutation(FALSE, (0 :> 1))) @@ (1 :> Mutation(FALSE, (0 :> 1))),
           EmptyMap, EmptyMap)

\* Only the storage of account 1 is revealed; a slot is written in it and
\* the account is updated.
UpdNoAccountProof ==
    Update((1 :> <<1>>), (1 :> Mutation(FALSE, (1 :> 1))),
           EmptyMap, (1 :> (<<>> :> StorLeaf0)))

Updates ==
    {UpdRevealBoth, UpdWipe, UpdBadProof, UpdStorageOnly, UpdRootless, UpdWriteBoth,
     UpdNoAccountProof}

\* ------------------------------------------------------------ segment ring

\* Option<T>.
None == <<>>
Some(x) == <<x>>

\* StaticFileTableRef, and the order of the ring of static file tables.
StaticFileTableRefs == {"Headers", "Transactions", "Receipts"}

\* TableRef.
StaticFiles(table_ref) == [kind |-> "StaticFiles", table |-> table_ref]
Other(index) == [kind |-> "Other", index |-> index]

\* The segments configured for pruning, each known by its place, and the
\* segments made for the static file tables, each known by its table.
SegmentSet(len) == [i \in 1..len |-> [configured |-> i - 1]]
StaticFileSegment(table_ref) == [static_file |-> table_ref]

\* A segment to prune and the purpose it is pruned for.
Prunable(segment, purpose) == [segment |-> segment, purpose |-> purpose]

\* StaticFileTableRing: the provider is the set of the static file segments
\* that have a highest static file block.
StaticFileTableRingNew(provider, start) ==
    [provider |-> provider, start |-> start, current |-> start, prev |-> None]

\* A variant of is_cycle that does not ask for a previous table.
is_cycle_at_start(r) == r.current = r.start

\* CycleSegments::is_cycle, for both rings.
is_cycle(r) == r.prev # None /\ r.current = r.start

StaticFilePeekNextTable(r) ==
    CASE r.current = "Headers" -> "Transactions"
      [] r.current = "Transactions" -> "Receipts"
      [] r.current = "Receipts" -> "Headers"

StaticFileNextTable(r) ==
    [r EXCEPT !.prev = Some(r.current), !.current = StaticFilePeekNextTable(r)]

\* A variant of next_segment that does not ask the provider.
StaticFileNextSegment_unasked(r) ==
    [ring |-> StaticFileNextTable(r),
     segment |-> Some(Prunable(StaticFileSegment(r.current), "StaticFile"))]

\* StaticFileTableRing::next_segment: the segment of the current table when
\* the provider has a static file for it, and the ring moved on.
StaticFileNextSegment(r) ==
    [ring |-> StaticFileNextTable(r),
     segment |-> IF r.current \in r.provider
                 THEN Some(Prunable(StaticFileSegment(r.current), "StaticFile"))
                 ELSE None]

StaticFileResetCycle(r) == [r EXCEPT !.prev = None, !.start = r.current]

\* TableRing::new: the ring, or the error.
\* Faulty variant of TableRing::new: the bound is off by one and an empty
\* list of segments is let through.
TableRingNew_off_by_one(provider, start, segments) ==
    LET static_file_start == IF start.kind = "StaticFiles" THEN start.table ELSE "Headers"
    IN  IF start.kind = "Other" /\ start.index > Len(segments)
        THEN [err |-> "segments index out of bounds"]
        ELSE [err |-> "Ok",
              ring |-> [start |-> start, current |-> start, prev |-> None,
                        segments |-> segments,
                        static_file_ring |->
                            StaticFileTableRingNew(provider, static_file_start)]]

TableRingNew(provider, start, segments) ==
    LET static_file_start == IF start.kind = "StaticFiles" THEN start.table ELSE "Headers"
    IN  IF /\ start.kind = "Other"
           /\ (segments = <<>> \/ start.index > Len(segments) - 1)
        THEN [err |-> "segments index out of bounds"]
        ELSE [err |-> "Ok",
              ring |-> [start |-> start, current |-> start, prev |-> None,
                        segments |-> segments,
                        static_file_ring |->
                            StaticFileTableRingNew(provider, static_file_start)]]

TableRingPeekNextTable(r) ==
    IF r.current.kind = "StaticFiles"
    THEN IF is_cycle(r.static_file_ring) /\ r.segments # <<>>
         THEN Other(0)
         ELSE StaticFiles(r.static_file_ring.current)
    ELSE IF r.current.index < Len(r.segments) - 1
         THEN Other(r.current.index + 1)
         ELSE StaticFiles(r.static_file_ring.current)

TableRingNextTable(r) ==
    [r EXCEPT !.prev = Some(r.current), !.current = TableRingPeekNextTable(r)]

\* TableRing::next_segment: a static file table is asked of the ring of
\* static files, which moves on; another table gives its segment.
TableRingNextSegment(r) ==
    IF r.current.kind = "StaticFiles"
    THEN LET inner == StaticFileNextSegment(r.static_file_ring)
         IN  [ring |-> TableRingNextTable([r EXCEPT !.static_file_ring = inner.ring]),
              segment |-> inner.segment]
    ELSE [ring |-> TableRingNextTable(r),
          segment |-> Some(Prunable(r.segments[r.current.index + 1], "User"))]

\* A variant of reset_cycle that keeps the start table.
TableRingResetCycle_keeps_start(r) ==
    [r EXCEPT !.prev = None,
              !.static_file_ring = StaticFileResetCycle(r.static_file_ring)]

TableRingResetCycle(r) ==
    [r EXCEPT !.prev = None, !.start = r.current,
              !.static_file_ring = StaticFileResetCycle(r.static_file_ring)]

\* The two implementations of CycleSegments.
IsTableRing(r) == "segments" \in DOMAIN r

next_segment(r) == IF IsTableRing(r) THEN TableRingNextSegment(r) ELSE StaticFileNextSegment(r)

reset_cycle(r) == IF IsTableRing(r) THEN TableRingResetCycle(r) ELSE StaticFileResetCycle(r)

\* SegmentIter::next: None and a reset ring after one cycle, else the next
\* item, which is a segment or None.  `walked` is the table the item is of.
SegmentIterNext(r) ==
    IF is_cycle(r)
    THEN [ring |-> reset_cycle(r), item |-> None, walked |-> <<>>]
    ELSE LET n == next_segment(r)
         IN  [ring |-> n.ring, item |-> Some(n.segment),
              walked |-> <<[table |-> r.current, segment |-> n.segment]>>]

\* The iterator that CycleSegments::iter returns: the items of SegmentIter
\* that are a segment, unwrapped.  One call of next goes on to the next
\* segment or to the end of the cycle.
RECURSIVE IterNext(_, _)
IterNext(r, walked) ==
    LET n == SegmentIterNext(r)
    IN  IF n.item = None
        THEN [ring |-> n.ring, item |-> None, walked |-> walked]
        ELSE IF n.item[1] = None
             THEN IterNext(n.ring, walked \o n.walked)
             ELSE [ring |-> n.ring, item |-> n.item[1], walked |-> walked \o n.walked]

\* ---------------------------------------------------------------- state

VARIABLES
    chan,       \* the input channel: the updates sent and not yet received
    senders,    \* number of senders of the input channel that are alive
    sent,       \* history: every update sent, in order
    pc,         \* where SparseTrieTask::run is
    update,     \* the batch being assembled or applied
    parts,      \* history: the updates the batch was assembled from
    handed,     \* history: the batches handed to update_sparse_trie
    trie,       \* the SparseStateTrie of the task
    accounts,   \* update_sparse_trie: state.accounts, not yet applied
    todo,       \* parallel phase: the entries the iterator has not yielded
    jobs,       \* parallel phase: the jobs a worker holds
    rx,         \* parallel phase: the results sent, not yet folded
    any_err,    \* reveal_decoded_multiproof: the error to return
    outcome,    \* what run returned
    call,       \* history of the current update_sparse_trie call
    root_calls, \* history: number of calls of root_with_updates
    api,        \* a SparseStateTrie driven through its public methods
    fm,         \* one call of filter_map_revealed_nodes
    pruner,     \* a ring of tables and the iterators taken over it
    worker      \* one storage worker of update_sparse_trie and its job

vars == <<chan, senders, sent, pc, update, parts, handed, trie, accounts, todo,
          jobs, rx, any_err, outcome, call, root_calls, api, fm, pruner, worker>>

\* The variables that SparseTrieTask::run does not touch.
libVars == <<api, fm, pruner, worker>>

NoUpdate == Update(EmptyMap, EmptyMap, EmptyMap, EmptyMap)

NoCall == [status |-> "none", failed_in |-> "none", entry |-> DefaultStateTrie,
           start |-> DefaultStateTrie,
           before |-> DefaultStateTrie, wrote |-> {}, only |-> {}, folded |-> {},
           folds |-> <<>>, applied |-> <<>>,
           left |-> 0]

\* A default trie that no method was called on: the trie, its fresh twin
\* (a default trie given the calls made since the last clear), the storage
\* tries the caller took out with take_storage_trie, the number of calls the
\* caller makes at most, and the calls made.
ApiStart ==
    [trie |-> DefaultStateTrie, twin |-> DefaultStateTrie, held |-> EmptyMap,
     limit |-> MaxOps, log |-> <<>>]

\* No call of filter_map_revealed_nodes is looked at.
NoFilterCall == [status |-> "none"]

\* No storage worker is looked at.
NoWorker == [status |-> "none"]

\* No ring of tables is looked at.
NoRing == [it |-> "none", cycles |-> <<>>]

\* SparseTrieTask::run about to start on a default trie.
DriverInit ==
    /\ chan = <<>>
    /\ senders = 1
    /\ sent = <<>>
    /\ pc = "recv"
    /\ update = NoUpdate
    /\ parts = <<>>
    /\ handed = <<>>
    /\ trie = DefaultStateTrie
    /\ accounts = EmptyMap
    /\ todo = EmptyMap
    /\ jobs = {}
    /\ rx = <<>>
    /\ any_err = "Ok"
    /\ outcome = [kind |-> "None"]
    /\ call = NoCall
    /\ root_calls = 0

Init ==
    /\ DriverInit
    /\ api = ApiStart
    /\ fm = NoFilterCall
    /\ pruner = NoRing
    /\ worker = NoWorker

driverVars == <<pc, update, parts, handed, trie, accounts, todo, jobs, rx, any_err,
                outcome, call, root_calls>>

\* ------------------------------------------------------- the producer side

Send(u) ==
    /\ senders > 0
    /\ Len(sent) < MaxUpdates
    /\ chan' = Append(chan, u)
    /\ sent' = Append(sent, u)
    /\ UNCHANGED <<libVars, senders, driverVars>>

DropSender ==
    /\ senders > 0
    /\ senders' = senders - 1
    /\ UNCHANGED <<libVars, chan, sent, driverVars>>

\* ------------------------------------------------------ run_inner, the loop

\* Faulty variant of RecvIsClosed: an empty queue alone counts as closure.
RecvIsClosedOnEmpty == chan = <<>>

\* recv() reports closure when every sender is dropped and nothing is queued.
RecvIsClosed == senders = 0 /\ chan = <<>>

\* self.updates.recv() returns an update
Recv ==
    /\ pc = "recv"
    /\ chan # <<>>
    /\ update' = Head(chan)
    /\ parts' = <<Head(chan)>>
    /\ chan' = Tail(chan)
    /\ pc' = "try_recv"
    /\ UNCHANGED <<libVars, senders, sent, handed, trie, accounts, todo, jobs, rx, any_err,
                   outcome, call, root_calls>>

\* self.updates.recv() fails: the loop ends
RecvClosed ==
    /\ pc = "recv"
    /\ RecvIsClosed
    /\ pc' = "final"
    /\ UNCHANGED <<libVars, chan, senders, sent, update, parts, handed, trie, accounts, todo,
                   jobs, rx, any_err, outcome, call, root_calls>>

\* Faulty variant of Coalesce: the drained update is received and lost.
CoalesceDropsNext(u, next) == u

\* What the inner loop makes of the batch and the next queued update.
Coalesce(u, next) == Extend(u, next)

\* self.updates.try_recv() returns an update: it is merged into the batch
TryRecv ==
    /\ pc = "try_recv"
    /\ chan # <<>>
    /\ update' = Coalesce(update, Head(chan))
    /\ parts' = Append(parts, Head(chan))
    /\ chan' = Tail(chan)
    /\ UNCHANGED <<libVars, senders, sent, pc, handed, trie, accounts, todo, jobs, rx, any_err,
                   outcome, call, root_calls>>

\* self.updates.try_recv() fails: update_sparse_trie is called with the batch
TryRecvEmpty ==
    /\ pc = "try_recv"
    /\ chan = <<>>
    /\ handed' = Append(handed, [update |-> update, parts |-> parts])
    /\ call' = [NoCall EXCEPT !.status = "reveal", !.entry = trie]
    /\ pc' = "reveal_account"
    /\ UNCHANGED <<libVars, chan, senders, sent, update, parts, trie, accounts, todo, jobs, rx,
                   any_err, outcome, root_calls>>

\* Faulty variant of AfterBatch: the loop goes on after a failed batch.
AfterBatchKeepsGoing(err) == "recv"

\* Where run_inner goes after update_sparse_trie returned: an error ends it.
AfterBatch(err) == IF err = "Ok" THEN "recv" ELSE "done"

\* update_sparse_trie returns: with an error, run returns the error and the
\* trie; the channels of the call and what they still hold are dropped.
\* left: the results that were sent and are not folded.
\* hist: the history of the call up to the return.
ReturnWith(hist, t, err, where, left) ==
    /\ trie' = t
    /\ pc' = AfterBatch(err)
    /\ outcome' = IF err = "Ok" THEN outcome
                  ELSE [kind |-> "Err", err |-> err, trie |-> t]
    /\ call' = [hist EXCEPT !.status = IF err = "Ok" THEN "ok" ELSE "failed",
                            !.failed_in = IF err = "Ok" THEN "none" ELSE where,
                            !.left = left]
    /\ accounts' = EmptyMap
    /\ todo' = EmptyMap
    /\ jobs' = {}
    /\ rx' = <<>>
    /\ any_err' = "Ok"
    /\ UNCHANGED <<libVars, chan, senders, sent, update, parts, handed, root_calls>>

Return(t, err, where, left) == ReturnWith(call, t, err, where, left)

\* ------------------------------------------- reveal_decoded_multiproof

\* for_each_init returns when the iterator is exhausted and every worker has
\* sent its result; the sender is dropped and the results are folded then.
RevealPhaseDone == todo = EmptyMap /\ jobs = {}

\* The account subtree is revealed first; a failure returns at once.
RevealAccount ==
    /\ pc = "reveal_account"
    /\ \E order \in Perms(DOMAIN update.multiproof.account_subtree) :
          LET r == reveal_decoded_account_multiproof(
                       trie, update.multiproof.account_subtree, order)
          IN  IF r.err # "Ok" THEN Return(r.trie, r.err, "reveal_account", 0)
              ELSE /\ trie' = r.trie
                   /\ todo' = update.multiproof.storages
                   /\ pc' = "reveal_storages"
                   /\ call' = [call EXCEPT !.start = r.trie]
                   /\ UNCHANGED <<libVars, chan, senders, sent, update, parts, handed, accounts,
                                  jobs, rx, any_err, outcome, root_calls>>

\* The iterator yields the next storage subtree: the path set and the trie
\* of the account are taken out of the container for the job.
RevealTake ==
    /\ pc = "reveal_storages"
    /\ \E account \in DOMAIN todo :
          LET p == take_or_create_revealed_paths(trie, account)
              s == take_or_create_trie(p.trie, account)
          IN  /\ trie' = s.trie
              /\ jobs' = jobs \cup {[account |-> account, storage_subtree |-> todo[account],
                                     revealed_nodes |-> p.taken, trie |-> s.taken]}
              /\ todo' = MapDel(todo, account)
    /\ UNCHANGED <<libVars, chan, senders, sent, pc, update, parts, handed, accounts, rx, any_err,
                   outcome, call, root_calls>>

\* A worker reveals the storage subtree of its job and sends the result.
RevealWork ==
    /\ pc = "reveal_storages"
    /\ \E job \in jobs : \E order \in Perms(DOMAIN job.storage_subtree) :
          LET r == reveal_decoded_storage_multiproof_inner(
                       job.storage_subtree, job.revealed_nodes, job.trie, order)
          IN  /\ rx' = Append(rx, [account |-> job.account,
                                   revealed_nodes |-> r.revealed_nodes,
                                   trie |-> r.trie, result |-> r.err])
              /\ jobs' = jobs \ {job}
    /\ UNCHANGED <<libVars, chan, senders, sent, pc, update, parts, handed, trie, accounts, todo,
                   any_err, outcome, call, root_calls>>

\* Faulty variant of RevealPutBack: the pair of a failed reveal is dropped.
RevealPutBackOnlyOk(t, result) ==
    IF result.result # "Ok" THEN t
    ELSE [t EXCEPT !.revealed_paths = MapPut(t.revealed_paths, result.account,
                                             result.revealed_nodes),
                   !.tries = MapPut(t.tries, result.account, result.trie)]

\* The container after one result of the reveal was folded back.
RevealPutBack(t, result) ==
    [t EXCEPT !.revealed_paths = MapPut(t.revealed_paths, result.account,
                                        result.revealed_nodes),
              !.tries = MapPut(t.tries, result.account, result.trie)]

\* Faulty variant of RevealKeepErr: the first error seen is kept.
RevealKeepFirstErr(err, result) == IF err # "Ok" THEN err ELSE result.result

\* The error kept after one result of the reveal was folded back.
RevealKeepErr(err, result) == IF result.result = "Ok" THEN err ELSE result.result

\* After the workers are done each result is folded back.
RevealFold ==
    /\ pc = "reveal_storages"
    /\ RevealPhaseDone /\ rx # <<>>
    /\ trie' = RevealPutBack(trie, Head(rx))
    /\ any_err' = RevealKeepErr(any_err, Head(rx))
    /\ rx' = Tail(rx)
    /\ call' = [call EXCEPT !.folded = @ \cup {Head(rx).account}]
    /\ UNCHANGED <<libVars, chan, senders, sent, pc, update, parts, handed, accounts, todo, jobs,
                   outcome, root_calls>>

\* A variant of the return that goes on to the storage mutations of the
\* batch whatever the reveal returned.
RevealReturn_goes_on ==
    /\ pc = "reveal_storages"
    /\ RevealPhaseDone /\ rx = <<>>
    /\ pc' = "storages"
    /\ todo' = update.state.storages
    /\ accounts' = update.state.accounts
    /\ any_err' = "Ok"
    /\ call' = [call EXCEPT !.status = "storages", !.before = trie, !.folded = {}]
    /\ UNCHANGED <<libVars, chan, senders, sent, update, parts, handed, trie, jobs, rx,
                   outcome, root_calls>>

\* reveal_decoded_multiproof returns; update_sparse_trie returns its error,
\* or goes on to the storage mutations of the batch.
RevealReturn ==
    /\ pc = "reveal_storages"
    /\ RevealPhaseDone /\ rx = <<>>
    /\ IF any_err # "Ok" THEN Return(trie, any_err, "reveal_storages", 0)
       ELSE /\ pc' = "storages"
            /\ todo' = update.state.storages
            /\ accounts' = update.state.accounts
            /\ call' = [call EXCEPT !.status = "storages", !.before = trie, !.folded = {}]
            /\ UNCHANGED <<libVars, chan, senders, sent, update, parts, handed, trie, jobs, rx,
                           any_err, outcome, root_calls>>

\* ------------------------------------------------- update_sparse_trie

\* Faulty variant of StoragePhaseDone: the results are folded while the
\* workers are still running.
StoragePhaseNotAwaited == TRUE

\* for_each_init returns when the iterator is exhausted and every worker has
\* sent its result; the sender is dropped and the results are folded then.
StoragePhaseDone == todo = EmptyMap /\ jobs = {}

\* The iterator yields the next storage mutation: the storage trie of the
\* account is taken out of the container for the job.
StorageTake ==
    /\ pc = "storages"
    /\ \E address \in DOMAIN todo :
          LET r == take_storage_trie(trie, address)
          IN  /\ trie' = r.trie
              /\ jobs' = jobs \cup {[address |-> address, storage |-> todo[address],
                                     storage_trie |-> r.taken]}
              /\ todo' = MapDel(todo, address)
    /\ UNCHANGED <<libVars, chan, senders, sent, pc, update, parts, handed, accounts, rx, any_err,
                   outcome, call, root_calls>>

\* A worker applies the mutation of its job and sends the result.
StorageWork ==
    /\ pc = "storages"
    /\ \E job \in jobs : \E order \in Perms(DOMAIN job.storage.storage) :
          /\ rx' = Append(rx, StorageWorker(job.address, job.storage, job.storage_trie, order))
          /\ jobs' = jobs \ {job}
    /\ UNCHANGED <<libVars, chan, senders, sent, pc, update, parts, handed, trie, accounts, todo,
                   any_err, outcome, call, root_calls>>

\* The fold loop takes the next result: an Err returns at once; an Ok one
\* is folded into the trie, and a failure of the account update returns.
Fold ==
    /\ pc = "storages"
    /\ StoragePhaseDone /\ rx # <<>>
    /\ LET result == Head(rx)
       IN  IF ~result.ok THEN Return(trie, result.err, "worker", Len(rx) - 1)
           ELSE LET f == FoldResult(trie, accounts, result)
                    folded == [call EXCEPT !.folds =
                                  Append(@, [result |-> result, before |-> trie,
                                             accounts |-> accounts, called |-> f.called,
                                             err |-> f.err, trie |-> f.trie,
                                             left |-> f.accounts])]
                IN  IF f.err # "Ok"
                    THEN ReturnWith(folded, f.trie, f.err, "fold", Len(rx) - 1)
                    ELSE /\ trie' = f.trie
                         /\ accounts' = f.accounts
                         /\ rx' = Tail(rx)
                         /\ call' = [folded EXCEPT !.folded = @ \cup {result.address},
                                                   !.wrote = @ \cup f.wrote]
                         /\ UNCHANGED <<libVars, chan, senders, sent, pc, update, parts, handed,
                                        todo, jobs, any_err, outcome, root_calls>>

\* Every result is folded: the account-only updates come next.
FoldDone ==
    /\ pc = "storages"
    /\ StoragePhaseDone /\ rx = <<>>
    /\ pc' = "accounts"
    /\ call' = [call EXCEPT !.status = "accounts"]
    /\ UNCHANGED <<libVars, chan, senders, sent, update, parts, handed, trie, accounts, todo, jobs,
                   rx, any_err, outcome, root_calls>>

\* The next of the remaining account updates is applied.
AccountUpdate ==
    /\ pc = "accounts"
    /\ \E address \in DOMAIN accounts :
          LET r == update_account(trie, address,
                       IF accounts[address] = <<>> THEN 0 ELSE accounts[address][1])
              applied == [call EXCEPT !.applied =
                             Append(@, [address |-> address, account |-> accounts[address],
                                        err |-> r.err])]
          IN  IF r.err # "Ok" THEN ReturnWith(applied, r.trie, r.err, "accounts", 0)
              ELSE /\ trie' = r.trie
                   /\ accounts' = MapDel(accounts, address)
                   /\ call' = [applied EXCEPT !.wrote = @ \cup {address},
                                             !.only = @ \cup {address}]
                   /\ UNCHANGED <<libVars, chan, senders, sent, pc, update, parts, handed, todo,
                                  jobs, rx, any_err, outcome, root_calls>>

\* calculate_subtries, and update_sparse_trie returns Ok.
AccountsDone ==
    /\ pc = "accounts"
    /\ accounts = EmptyMap
    /\ Return(trie, "Ok", "none", 0)

\* ------------------------------------------------- run_inner, the end

\* root_with_updates after the loop; run returns its result and the trie.
Final ==
    /\ pc = "final"
    /\ root_calls' = root_calls + 1
    /\ IF root_with_updates_panics(trie)
       THEN /\ pc' = "panicked"
            /\ UNCHANGED <<libVars, trie, outcome>>
       ELSE LET r == root_with_updates(trie)
            IN  /\ trie' = r.trie
                /\ pc' = "done"
                /\ outcome' = [kind |-> "Ok", state_root |-> r.state_root,
                               trie_updates |-> r.trie_updates, trie |-> r.trie]
    /\ UNCHANGED <<libVars, chan, senders, sent, update, parts, handed, accounts, todo, jobs, rx,
                   any_err, call>>

\* ------------------------------------- sparse state trie, the other methods

\* SparseTrie::clear: the content is drained, the trie is blind again.
Clear(t) == BlindTrie

\* StorageTries::get_revealed_paths_mut: the path set of the account, taken
\* from the pool or created when the account has none.
get_revealed_paths_mut(t, account) ==
    IF account \in DOMAIN t.revealed_paths THEN t
    ELSE LET p == take_or_create_revealed_paths(t, account)
         IN  [p.trie EXCEPT !.revealed_paths = MapPut(@, account, p.taken)]

\* Faulty variant of update_storage_leaf: the slot joins the revealed paths
\* of the account before the leaf is written.
update_storage_leaf_recorded_first(t, address, slot, value) ==
    IF address \notin DOMAIN t.tries THEN Fail(t, "Blind")
    ELSE LET r == UpdateLeaf(t.tries[address], slot, value)
             t1 == get_revealed_paths_mut(t, address)
         IN  [trie |-> [t1 EXCEPT !.tries[address] = r.trie,
                                  !.revealed_paths[address] = @ \cup {slot}],
              err |-> r.err]

\* update_storage_leaf: the slot joins the revealed paths of the account
\* once the leaf is written.
update_storage_leaf(t, address, slot, value) ==
    IF address \notin DOMAIN t.tries THEN Fail(t, "Blind")
    ELSE LET r == UpdateLeaf(t.tries[address], slot, value)
             t1 == [t EXCEPT !.tries[address] = r.trie]
         IN  IF r.err # "Ok" THEN Fail(t1, r.err)
             ELSE LET t2 == get_revealed_paths_mut(t1, address)
                  IN  Ok([t2 EXCEPT !.revealed_paths[address] = @ \cup {slot}])

\* remove_storage_leaf
remove_storage_leaf(t, address, slot) ==
    IF address \notin DOMAIN t.tries THEN Fail(t, "Blind")
    ELSE LET r == RemoveLeaf(t.tries[address], slot)
         IN  [trie |-> [t EXCEPT !.tries[address] = r.trie], err |-> r.err]

\* Faulty variant of wipe_storage: the revealed paths of the storage go with
\* its nodes.
wipe_storage_forgets_paths(t, address) ==
    IF address \notin DOMAIN t.tries THEN Ok(t)
    ELSE LET r == Wipe(t.tries[address])
         IN  [trie |-> [t EXCEPT !.tries = MapPut(@, address, r.trie),
                                 !.revealed_paths = MapDel(@, address)],
              err |-> r.err]

\* wipe_storage: the storage trie of the account, if it has one, is wiped.
wipe_storage(t, address) ==
    IF address \notin DOMAIN t.tries THEN Ok(t)
    ELSE LET r == Wipe(t.tries[address])
         IN  [trie |-> [t EXCEPT !.tries[address] = r.trie], err |-> r.err]

\* Faulty variant of storage_clear: the tries are pooled as they are.
storage_clear_unwiped(t, trie_order, path_order) ==
    [t EXCEPT
        !.cleared_tries = @ \o [i \in 1..Len(trie_order) |-> t.tries[trie_order[i]]],
        !.tries = EmptyMap,
        !.cleared_revealed_paths = @ \o [i \in 1..Len(path_order) |-> {}],
        !.revealed_paths = EmptyMap]

\* Faulty variant of storage_clear: the path sets are pooled with their
\* paths.
storage_clear_keeps_paths(t, trie_order, path_order) ==
    [t EXCEPT
        !.cleared_tries =
            @ \o [i \in 1..Len(trie_order) |-> Clear(t.tries[trie_order[i]])],
        !.tries = EmptyMap,
        !.cleared_revealed_paths =
            @ \o [i \in 1..Len(path_order) |-> t.revealed_paths[path_order[i]]],
        !.revealed_paths = EmptyMap]

\* StorageTries::clear: every trie is cleared and pooled, every path set is
\* emptied and pooled, in the order the maps are drained.
storage_clear(t, trie_order, path_order) ==
    [t EXCEPT
        !.cleared_tries =
            @ \o [i \in 1..Len(trie_order) |-> Clear(t.tries[trie_order[i]])],
        !.tries = EmptyMap,
        !.cleared_revealed_paths = @ \o [i \in 1..Len(path_order) |-> {}],
        !.revealed_paths = EmptyMap]

\* Faulty variant of from_state_trie: the revealed account paths are kept.
from_state_trie_keeps_paths(t, trie_order, path_order) ==
    LET t1 == [t EXCEPT !.state = Clear(@)]
        t2 == storage_clear(t1, trie_order, path_order)
    IN  [t2 EXCEPT !.account_rlp_buf = <<>>]

\* ClearedSparseStateTrie::from_state_trie
from_state_trie(t, trie_order, path_order) ==
    LET t1 == [t EXCEPT !.state = Clear(@), !.revealed_account_paths = {}]
        t2 == storage_clear(t1, trie_order, path_order)
    IN  [t2 EXCEPT !.account_rlp_buf = <<>>]

RECURSIVE RevealTakeAll(_, _, _)
\* The iterator of the storage reveal: the path set and the trie of each
\* account are taken out of the container, in iteration order.
RevealTakeAll(t, order, taken) ==
    IF order = <<>> THEN [trie |-> t, taken |-> taken]
    ELSE LET account == Head(order)
             p == take_or_create_revealed_paths(t, account)
             s == take_or_create_trie(p.trie, account)
         IN  RevealTakeAll(s.trie, Tail(order),
                           MapPut(taken, account,
                                  [revealed_nodes |-> p.taken, trie |-> s.taken]))

\* The results of the workers of the storage reveal, in the order they are
\* sent.
RevealResults(storages, taken, inner, finish) ==
    [i \in 1..Len(finish) |->
        LET account == finish[i]
            r == reveal_decoded_storage_multiproof_inner(
                     storages[account], taken[account].revealed_nodes,
                     taken[account].trie, inner[account])
        IN  [account |-> account, revealed_nodes |-> r.revealed_nodes,
             trie |-> r.trie, result |-> r.err]]

RECURSIVE RevealFoldAll(_, _, _)
\* The fold loop of the storage reveal over the results received.
RevealFoldAll(t, results, err) ==
    IF results = <<>> THEN [trie |-> t, err |-> err]
    ELSE RevealFoldAll(RevealPutBack(t, Head(results)), Tail(results),
                       RevealKeepErr(err, Head(results)))

\* reveal_decoded_multiproof (std build) for one choice of the iteration
\* orders of its maps and of the order in which the workers finish; results
\* are the results of the storage reveal as they were folded.
reveal_decoded_multiproof(t, multiproof, ord) ==
    LET a == reveal_decoded_account_multiproof(t, multiproof.account_subtree, ord.account)
    IN  IF a.err # "Ok"
        THEN [trie |-> a.trie, err |-> a.err, account_err |-> a.err, results |-> <<>>]
        ELSE LET k == RevealTakeAll(a.trie, ord.take, EmptyMap)
                 results == RevealResults(multiproof.storages, k.taken, ord.inner,
                                          ord.finish)
                 f == RevealFoldAll(k.trie, results, "Ok")
             IN  [trie |-> f.trie, err |-> f.err, account_err |-> "Ok",
                  results |-> results]

\* The orders reveal_decoded_multiproof may meet on a multiproof.
RevealOrders(multiproof) ==
    LET owners == DOMAIN multiproof.storages
        all == UNION {Perms(DOMAIN multiproof.storages[x]) : x \in owners}
    IN  {[account |-> o, take |-> t, finish |-> f, inner |-> i] :
            o \in Perms(DOMAIN multiproof.account_subtree),
            t \in Perms(owners), f \in Perms(owners),
            i \in {g \in [owners -> all] :
                      \A x \in owners : g[x] \in Perms(DOMAIN multiproof.storages[x])}}

\* -------------------------------------------------------- reveal_witness

\* keccak(rlp(node)), the key of a node in a witness.
HashOfNode(node) ==
    CASE node.kind = "EmptyRoot" -> EMPTY_ROOT_HASH
      [] node.kind = "Leaf" -> LeafHash(node.key, node.value)
      [] node.kind = "Branch" -> BranchHash(node.children)
      [] OTHER -> [h |-> "extension", key |-> node.key, child |-> node.child]

\* Bytes of a witness that are the RLP of no trie node.
NotANode == [kind |-> "NotANode"]

\* TrieNode::decode succeeds on the RLP of a node alone.
IsTrieNodeRlp(bytes) == bytes.kind \in {"EmptyRoot", "Leaf", "Branch", "Extension"}

\* Nibbles::pack of a full path: the hashed address, Unpack undone.
Pack(full_path) == full_path[1]

\* The children of a branch in the order of their index.
ChildrenInOrder(children) ==
    CHOOSE o \in Perms(DOMAIN children) : \A i, j \in 1..Len(o) : i < j => o[i] < o[j]

QueueItem(hash, path, maybe_account) ==
    [hash |-> hash, path |-> path, maybe_account |-> maybe_account]

\* What a decoded node pushes into the queue of reveal_witness: the children
\* of a branch, the child of an extension, and the storage root of an
\* account leaf unless it is EMPTY_ROOT_HASH. The value of a leaf of the
\* account trie must decode as a TrieAccount.
WitnessPush(item, trie_node) ==
    CASE trie_node.kind = "Branch" ->
           LET o == ChildrenInOrder(trie_node.children)
           IN  [err |-> "Ok",
                pushed |-> [i \in 1..Len(o) |->
                              QueueItem(trie_node.children[o[i]], Append(item.path, o[i]),
                                        item.maybe_account)]]
      [] trie_node.kind = "Extension" ->
           [err |-> "Ok",
            pushed |-> <<QueueItem(trie_node.child, item.path \o trie_node.key,
                                   item.maybe_account)>>]
      [] trie_node.kind = "Leaf" /\ item.maybe_account = <<>> ->
           IF ~IsAccountRlp(trie_node.value) THEN [err |-> "Rlp", pushed |-> <<>>]
           ELSE LET account == DecodeAccount(trie_node.value)
                    hashed_address == Pack(item.path \o trie_node.key)
                IN  [err |-> "Ok",
                     pushed |-> IF account.storage_root # EMPTY_ROOT_HASH
                                THEN <<QueueItem(account.storage_root, <<>>,
                                                 <<hashed_address>>)>>
                                ELSE <<>>]
      [] OTHER -> [err |-> "Ok", pushed |-> <<>>]

\* StorageTries::get_trie_and_revealed_paths_mut: the trie and the path set
\* of the account are created, from the pools if they hold any, unless the
\* account has them.
get_trie_and_revealed_paths_mut(t, account) ==
    LET t1 == IF account \in DOMAIN t.tries THEN t
              ELSE LET c == take_or_create_trie(t, account)
                   IN  [c.trie EXCEPT !.tries = MapPut(@, account, c.taken)]
    IN  get_revealed_paths_mut(t1, account)

\* Faulty variant of WitnessPathRevealed: no path counts as revealed.
WitnessPathRevealed_never(t, maybe_account, path) == FALSE

\* The check reveal_witness makes before it reveals a node: the path is in
\* the path set of the account's storage, or in revealed_account_paths.
WitnessPathRevealed(t, maybe_account, path) ==
    IF maybe_account # <<>>
    THEN /\ maybe_account[1] \in DOMAIN t.revealed_paths
         /\ path \in t.revealed_paths[maybe_account[1]]
    ELSE path \in t.revealed_account_paths

\* "Reveal the node itself" of reveal_witness, for a node whose path is not
\* revealed: the root through reveal_root, any other node through
\* reveal_node of a revealed trie; the path is recorded on success.
WitnessReveal(t, item, trie_node) ==
    IF item.maybe_account # <<>>
    THEN LET account == item.maybe_account[1]
             t1 == get_trie_and_revealed_paths_mut(t, account)
             storage_trie_entry == t1.tries[account]
             r == IF item.path = <<>> THEN Ok(RevealRoot(storage_trie_entry, trie_node))
                  ELSE IF ~IsRevealed(storage_trie_entry) THEN Fail(storage_trie_entry, "Blind")
                  ELSE RevealNode(storage_trie_entry, item.path, trie_node)
         IN  IF r.err # "Ok" THEN Fail([t1 EXCEPT !.tries = MapPut(@, account, r.trie)], r.err)
             ELSE Ok([t1 EXCEPT !.tries = MapPut(@, account, r.trie),
                                !.revealed_paths =
                                    MapPut(@, account, @[account] \cup {item.path})])
    ELSE LET r == IF item.path = <<>> THEN Ok(RevealRoot(t.state, trie_node))
                  ELSE IF ~IsRevealed(t.state) THEN Fail(t.state, "Blind")
                  ELSE RevealNode(t.state, item.path, trie_node)
         IN  IF r.err # "Ok" THEN Fail([t EXCEPT !.state = r.trie], r.err)
             ELSE Ok([t EXCEPT !.state = r.trie,
                               !.revealed_account_paths = @ \cup {item.path}])

\* One node met by reveal_witness: the queue item, the node, and the state
\* trie before it; the state trie after it is the one before the next node,
\* or the one reveal_witness leaves.
WitnessStep(item, trie_node, t, r) ==
    [hash |-> item.hash, path |-> item.path, maybe_account |-> item.maybe_account,
     node |-> trie_node, before |-> t, err |-> r.err]

\* A witness is a map from hashes to bytes, held as the sequence of its
\* entries; no hash has two entries.
WitnessHas(witness, hash) == \E i \in 1..Len(witness) : witness[i].hash = hash

WitnessGet(witness, hash) ==
    witness[CHOOSE i \in 1..Len(witness) : witness[i].hash = hash].bytes

RECURSIVE WitnessLoop(_, _, _, _)
\* The loop of reveal_witness over its queue; steps are the nodes met.
WitnessLoop(t, witness, queue, steps) ==
    IF queue = <<>> THEN [trie |-> t, err |-> "Ok", steps |-> steps]
    ELSE LET item == Head(queue)
         IN  IF ~WitnessHas(witness, item.hash)
             THEN WitnessLoop(t, witness, Tail(queue), steps)
             ELSE IF ~IsTrieNodeRlp(WitnessGet(witness, item.hash))
             THEN [trie |-> t, err |-> "Rlp", steps |-> steps]
             ELSE LET trie_node == WitnessGet(witness, item.hash)
                      p == WitnessPush(item, trie_node)
                      r == IF p.err # "Ok" THEN Fail(t, p.err)
                           ELSE IF WitnessPathRevealed(t, item.maybe_account, item.path)
                           THEN Ok(t)
                           ELSE WitnessReveal(t, item, trie_node)
                      met == Append(steps, WitnessStep(item, trie_node, t, r))
                  IN  IF r.err # "Ok" THEN [trie |-> r.trie, err |-> r.err, steps |-> met]
                      ELSE WitnessLoop(r.trie, witness, Tail(queue) \o p.pushed, met)

\* reveal_witness
reveal_witness(t, state_root, witness) ==
    WitnessLoop(t, witness, <<QueueItem(state_root, <<>>, <<>>)>>, <<>>)

\* ------------------------------------------------ the multiproofs revealed

MultiProof(account_subtree, storages) ==
    [account_subtree |-> account_subtree, storages |-> storages]

\* A storage trie holding both slots: the branch and its two leaves.
StorBranchProof ==
    (<<>> :> BranchNode((0 :> LeafHash(<<>>, EncodeValue(1)))
                        @@ (1 :> LeafHash(<<>>, EncodeValue(1)))))
    @@ (<<0>> :> LeafNode(<<>>, EncodeValue(1)))
    @@ (<<1>> :> LeafNode(<<>>, EncodeValue(1)))

\* Both accounts with their leaves, and both slots of account 0.
MpFull == MultiProof(AccBranchProof, (0 :> StorBranchProof))

\* Only the root nodes: the children of the account branch stay blinded.
MpRoots ==
    MultiProof((<<>> :> AccBranchProof[<<>>]), (0 :> (<<>> :> StorBranchProof[<<>>])))

\* The empty account trie, and two storage proofs that fail in different
\* ways: an empty root with another node, and a node below a root that is
\* a leaf.
MpTwoErrors ==
    MultiProof((<<>> :> EmptyRootNode),
               (0 :> ((<<>> :> EmptyRootNode) @@ (<<0>> :> LeafNode(<<>>, EncodeValue(1)))))
               @@ (1 :> ((<<>> :> StorLeaf0) @@ (<<1>> :> LeafNode(<<>>, EncodeValue(1))))))

\* An account proof that fails, with a storage proof that would fail too.
MpBadAccount ==
    MultiProof((<<>> :> EmptyRootNode) @@ (<<0>> :> LeafNode(<<>>, AcctVal(1, StorRoot0))),
               (1 :> ((<<>> :> StorLeaf0) @@ (<<1>> :> LeafNode(<<>>, EncodeValue(1))))))

\* Proofs that carry no root entry.
MpRootless ==
    MultiProof((<<0>> :> LeafNode(<<>>, AcctVal(1, StorRoot0))),
               (1 :> (<<1>> :> LeafNode(<<>>, EncodeValue(1)))))

MultiProofs == {MpFull, MpRoots, MpTwoErrors, MpBadAccount, MpRootless}

\* ------------------------------------------- the public methods, as steps

\* The account the caller writes to and takes the storage trie of.
Written == {0}

\* One call of a method is logged with its result on the trie and on the
\* twin.
ApiCall(op, r, rt, held) ==
    LET same == api.twin = api.trie /\ op.name # "from_state_trie"
        twin == IF same THEN r.trie ELSE rt.trie
        twin_err == IF same THEN r.err ELSE rt.err
    IN  /\ api' = [trie |-> r.trie, twin |-> twin, held |-> held, limit |-> api.limit,
                   log |-> Append(api.log, [op |-> op, err |-> r.err, twin_err |-> twin_err,
                                            before |-> api.trie, trie |-> r.trie])]
        /\ UNCHANGED <<fm, pruner, worker, chan, senders, sent, driverVars>>

\* A further call is made: the bound is not reached and no call panicked.
ApiOpen ==
    /\ Len(api.log) < api.limit
    /\ api.log # <<>> => api.log[Len(api.log)].err # "panicked"

\* reveal_decoded_multiproof of one of the multiproofs, in any order.
RevealCall(multiproofs) ==
    /\ ApiOpen
    /\ \E multiproof \in multiproofs : \E ord \in RevealOrders(multiproof) :
          LET r == reveal_decoded_multiproof(api.trie, multiproof, ord)
              rt == reveal_decoded_multiproof(api.twin, multiproof, ord)
          IN  ApiCall([name |-> "reveal_decoded_multiproof", multiproof |-> multiproof,
                       account_err |-> r.account_err,
                       results |-> [i \in 1..Len(r.results) |-> r.results[i].result]],
                      r, rt, api.held)

ApiReveal == RevealCall(MultiProofs)

\* update_account of one of the addresses with one of the account infos;
\* the info 0 is the empty account.
UpdateAccountCall(addresses, infos) ==
    /\ ApiOpen
    /\ \E address \in addresses : \E account \in infos :
          ApiCall([name |-> "update_account", address |-> address, account |-> account],
                  update_account(api.trie, address, account),
                  update_account(api.twin, address, account), api.held)

ApiUpdateAccount == UpdateAccountCall(Written, {1})

ApiUpdateAccountLeaf ==
    /\ ApiOpen
    /\ \E address \in Written :
          ApiCall([name |-> "update_account_leaf", path |-> Unpack(address)],
                  update_account_leaf(api.trie, Unpack(address), AcctVal(1, EMPTY_ROOT_HASH)),
                  update_account_leaf(api.twin, Unpack(address), AcctVal(1, EMPTY_ROOT_HASH)), api.held)

ApiRemoveAccountLeaf ==
    /\ ApiOpen
    /\ \E address \in Written :
          ApiCall([name |-> "remove_account_leaf", path |-> Unpack(address)],
                  remove_account_leaf(api.trie, Unpack(address)),
                  remove_account_leaf(api.twin, Unpack(address)), api.held)

\* update_storage_leaf writes slot 1 of either account.
ApiUpdateStorageLeaf ==
    /\ ApiOpen
    /\ \E address \in Addrs :
          ApiCall([name |-> "update_storage_leaf", address |-> address, slot |-> Unpack(1)],
                  update_storage_leaf(api.trie, address, Unpack(1), EncodeValue(1)),
                  update_storage_leaf(api.twin, address, Unpack(1), EncodeValue(1)), api.held)

\* remove_storage_leaf of one of the slots of an account written to.
RemoveStorageLeafCall(slots) ==
    /\ ApiOpen
    /\ \E address \in Written : \E slot \in slots :
          ApiCall([name |-> "remove_storage_leaf", address |-> address, slot |-> Unpack(slot)],
                  remove_storage_leaf(api.trie, address, Unpack(slot)),
                  remove_storage_leaf(api.twin, address, Unpack(slot)), api.held)

\* remove_storage_leaf removes slot 0.
ApiRemoveStorageLeaf == RemoveStorageLeafCall({0})

ApiWipeStorage ==
    /\ ApiOpen
    /\ \E address \in Written :
          ApiCall([name |-> "wipe_storage", address |-> address],
                  wipe_storage(api.trie, address), wipe_storage(api.twin, address), api.held)

\* take_storage_trie: the caller holds the trie taken, if there was one.
ApiTakeStorageTrie ==
    /\ ApiOpen
    /\ \E address \in Written :
          LET r == take_storage_trie(api.trie, address)
              rt == take_storage_trie(api.twin, address)
          IN  ApiCall([name |-> "take_storage_trie", address |-> address],
                      Ok(r.trie), Ok(rt.trie),
                      IF r.taken = <<>> THEN api.held
                      ELSE MapPut(api.held, address, r.taken[1]))

\* insert_storage_trie of a trie taken before.
ApiInsertStorageTrie ==
    /\ ApiOpen
    /\ \E address \in DOMAIN api.held :
          ApiCall([name |-> "insert_storage_trie", address |-> address],
                  Ok(insert_storage_trie(api.trie, address, api.held[address])),
                  Ok(insert_storage_trie(api.twin, address, api.held[address])),
                  MapDel(api.held, address))

\* ClearedSparseStateTrie::from_state_trie, then into_inner: the trie is
\* used again; its twin is a default trie from here on.
ApiClear ==
    /\ ApiOpen
    /\ \E trie_order \in Perms(DOMAIN api.trie.tries) :
       \E path_order \in Perms(DOMAIN api.trie.revealed_paths) :
          ApiCall([name |-> "from_state_trie"],
                  Ok(from_state_trie(api.trie, trie_order, path_order)),
                  Ok(DefaultStateTrie), api.held)

ApiNext ==
    \/ ApiReveal
    \/ ApiUpdateAccount
    \/ ApiUpdateAccountLeaf
    \/ ApiRemoveAccountLeaf
    \/ ApiUpdateStorageLeaf
    \/ ApiRemoveStorageLeaf
    \/ ApiWipeStorage
    \/ ApiTakeStorageTrie
    \/ ApiInsertStorageTrie
    \/ ApiClear

\* ------------------------------- account leaves and roots, as steps

\* Both accounts with their leaves, and no storage.
MpAccounts == MultiProof(AccBranchProof, EmptyMap)

\* Account 0 alone, with an empty info, and its storage, which is the leaf
\* of slot 0.
MpLeaf ==
    MultiProof((<<>> :> LeafNode(<<0>>, AcctVal(0, StorRoot0))), (0 :> (<<>> :> StorLeaf0)))

AccountProofs == {MpFull, MpAccounts, MpLeaf, MpRoots, MpRootless}

AccUpdateAccountStorageRoot ==
    /\ ApiOpen
    /\ \E address \in Addrs :
          ApiCall([name |-> "update_account_storage_root", address |-> address],
                  update_account_storage_root(api.trie, address),
                  update_account_storage_root(api.twin, address), api.held)

\* root_with_updates; what it returns is logged with the call. A Blind
\* storage trie makes it panic.
AccRootWithUpdates ==
    /\ ApiOpen
    /\ IF root_with_updates_panics(api.trie)
       THEN ApiCall([name |-> "root_with_updates"],
                    Fail(api.trie, "panicked"), Fail(api.twin, "panicked"), api.held)
       ELSE LET r == root_with_updates(api.trie)
            IN  ApiCall([name |-> "root_with_updates", state_root |-> r.state_root,
                         trie_updates |-> r.trie_updates],
                        r, r, api.held)

\* The calls made: a reveal, update_account of either account with an empty
\* or a non-empty info, and so on.
AccountNext ==
    \/ RevealCall(AccountProofs)
    \/ UpdateAccountCall(Addrs, {0, 1})
    \/ AccUpdateAccountStorageRoot
    \/ ApiUpdateStorageLeaf
    \/ RemoveStorageLeafCall(Slots)
    \/ ApiWipeStorage

\* ---------------------------------------- roots and deltas, as steps

RootInit ==
    /\ DriverInit
    /\ api = [ApiStart EXCEPT !.limit = MaxRootOps]
    /\ fm = NoFilterCall
    /\ pruner = NoRing
    /\ worker = NoWorker

\* The calls made: a reveal, the removal of account 1, writes, removals
\* and the wipe of the storage of account 0, and root_with_updates.
RootNext ==
    \/ RevealCall({MpFull, MpLeaf, MpRootless})
    \/ UpdateAccountCall({1}, {0})
    \/ ApiUpdateStorageLeaf
    \/ RemoveStorageLeafCall(Slots)
    \/ ApiWipeStorage
    \/ AccRootWithUpdates

\* ------------------------------------------- reveal_witness, as a step

\* The witness holding the nodes given, each under its hash.
WitnessOf(nodes) == [i \in 1..Len(nodes) |-> [hash |-> HashOfNode(nodes[i]), bytes |-> nodes[i]]]

StateWitness(state_root, witness) == [state_root |-> state_root, witness |-> witness]

\* The account trie of AccBranchProof with the storage of account 0, and
\* the empty root node: account 1 has no storage.
WitFull ==
    StateWitness(HashOfNode(AccBranchProof[<<>>]),
                 WitnessOf(<<AccBranchProof[<<>>], AccBranchProof[<<0>>], AccBranchProof[<<1>>],
                             StorLeaf0, EmptyRootNode>>))

\* The same without the nodes of the storage.
WitAccounts ==
    StateWitness(HashOfNode(AccBranchProof[<<>>]),
                 WitnessOf(<<AccBranchProof[<<>>], AccBranchProof[<<0>>],
                             AccBranchProof[<<1>>]>>))

\* Account 0 alone, with a storage that holds both slots: the two leaves of
\* the storage are one node of the witness.
WitStorBranch ==
    LET account == LeafNode(<<0>>, AcctVal(1, HashOfNode(StorBranchProof[<<>>])))
    IN  StateWitness(HashOfNode(account),
                     WitnessOf(<<account, StorBranchProof[<<>>], StorBranchProof[<<0>>]>>))

\* A leaf of the account trie that holds no account, and bytes that are no
\* node below the root.
WitNoAccount == StateWitness(HashOfNode(StorLeaf0), WitnessOf(<<StorLeaf0>>))

WitNotANode ==
    StateWitness(HashOfNode(AccBranchProof[<<>>]),
                 Append(WitnessOf(<<AccBranchProof[<<>>]>>),
                        [hash |-> HashOfNode(AccBranchProof[<<0>>]), bytes |-> NotANode]))

Witnesses == {WitFull, WitAccounts, WitStorBranch, WitNoAccount, WitNotANode}

\* reveal_witness of one of the witnesses; the nodes met are logged with
\* the call.
WitRevealWitness ==
    /\ ApiOpen
    /\ \E w \in Witnesses :
          LET r == reveal_witness(api.trie, w.state_root, w.witness)
              rt == reveal_witness(api.twin, w.state_root, w.witness)
          IN  ApiCall([name |-> "reveal_witness", state_root |-> w.state_root,
                       witness |-> w.witness, steps |-> r.steps],
                      [trie |-> r.trie, err |-> r.err],
                      [trie |-> rt.trie, err |-> rt.err], api.held)

\* The calls made: witnesses and multiproofs are revealed, leaves are
\* written and removed, storage tries are wiped, taken and put back, the
\* root is asked for, and the trie is cleared.
WitnessNext ==
    \/ WitRevealWitness
    \/ RevealCall({MpFull, MpRoots, MpRootless})
    \/ ApiUpdateAccount
    \/ ApiRemoveAccountLeaf
    \/ ApiUpdateStorageLeaf
    \/ ApiRemoveStorageLeaf
    \/ ApiWipeStorage
    \/ ApiTakeStorageTrie
    \/ ApiInsertStorageTrie
    \/ AccRootWithUpdates
    \/ ApiClear

\* --------------------------------- filter_map_revealed_nodes, as a step

\* The paths of the proofs given to filter_map_revealed_nodes.
ProofPaths == {<<>>, <<0>>, <<1>>}

\* The nodes of the proofs: each kind, a branch with one and with two
\* children.
ProofNodes ==
    {EmptyRootNode,
     LeafNode(<<>>, EncodeValue(1)),
     BranchNode((0 :> EMPTY_ROOT_HASH)),
     BranchNode((0 :> EMPTY_ROOT_HASH) @@ (1 :> EMPTY_ROOT_HASH)),
     ExtensionNode(<<0>>, EMPTY_ROOT_HASH)}

\* The calls looked at: any proof over the paths, any set of paths revealed
\* before.
FilterCalls ==
    {[status |-> "called", proof_nodes |-> proof, revealed_nodes |-> revealed] :
        proof \in UNION {[paths -> ProofNodes] : paths \in SUBSET ProofPaths},
        revealed \in SUBSET ProofPaths}

FilterSpecInit ==
    /\ DriverInit
    /\ api = ApiStart
    /\ fm \in FilterCalls
    /\ pruner = NoRing
    /\ worker = NoWorker

\* filter_map_revealed_nodes runs over the entries in the order the map
\* gives them and returns.
FilterReturn ==
    /\ fm.status = "called"
    /\ \E order \in Perms(DOMAIN fm.proof_nodes) :
          fm' = [status |-> "returned", proof_nodes |-> fm.proof_nodes,
                 revealed_nodes |-> fm.revealed_nodes, order |-> order,
                 result |-> filter_map_revealed_nodes(fm.proof_nodes, fm.revealed_nodes,
                                                      order)]
    /\ UNCHANGED <<api, pruner, worker, chan, senders, sent, driverVars>>

FilterNext == FilterReturn

\* ------------------------------------------------- segment ring, as steps

\* The tables a start may name for a ring over `len` segments.
TableRefs(len) ==
    {StaticFiles(t) : t \in StaticFileTableRefs} \cup {Other(i) : i \in 0..(len - 1)}

\* The rings that the constructors give: any static files, any start, one
\* past the last segment included, which TableRing::new refuses.
NewRings ==
    {StaticFileTableRingNew(provider, start) :
        provider \in SUBSET StaticFileTableRefs, start \in StaticFileTableRefs}
    \cup {made.ring : made \in
            {m \in {TableRingNew(provider, start, SegmentSet(len)) :
                        provider \in SUBSET StaticFileTableRefs,
                        start \in TableRefs(MaxSegments + 1),
                        len \in 0..MaxSegments} : m.err = "Ok"}}

RingInit ==
    /\ DriverInit
    /\ api = ApiStart
    /\ fm = NoFilterCall
    /\ pruner \in {[ring |-> r, it |-> "none", cycles |-> <<>>] : r \in NewRings}
    /\ worker = NoWorker

\* An iterator is taken over the ring as it is now: what made it, the ring
\* it was made on, the tables it walked with what each gave, the items it
\* yielded, whether it is open, ended or dropped, and the ring it left.
Begin(by, r) ==
    [ring |-> r, it |-> by,
     cycles |-> Append(pruner.cycles,
                       [by |-> by, start |-> r, walked |-> <<>>, yielded |-> <<>>,
                        state |-> "open", after |-> r])]

\* A further iterator is taken: none is open and the bound is not reached.
RingIdle == pruner.it = "none" /\ Len(pruner.cycles) < MaxCycles

\* SegmentIter { ring }, as the tests of the ring make it.
RingSegmentIter ==
    /\ RingIdle
    /\ pruner' = Begin("SegmentIter", pruner.ring)
    /\ UNCHANGED <<api, fm, worker, chan, senders, sent, driverVars>>

\* CycleSegments::next_cycle.
RingNextCycle ==
    /\ RingIdle
    /\ pruner' = Begin("next_cycle", reset_cycle(pruner.ring))
    /\ UNCHANGED <<api, fm, worker, chan, senders, sent, driverVars>>

\* CycleSegments::iter.
RingIter ==
    /\ RingIdle
    /\ pruner' = Begin("iter", reset_cycle(pruner.ring))
    /\ UNCHANGED <<api, fm, worker, chan, senders, sent, driverVars>>

\* One call of next on the iterator; the caller leaves it when it ends.
RingIterNext ==
    /\ pruner.it # "none"
    /\ LET walk == IF pruner.it = "iter"
                   THEN IterNext(pruner.ring, <<>>)
                   ELSE SegmentIterNext(pruner.ring)
           ended == walk.item = None
           k == Len(pruner.cycles)
           c == pruner.cycles[k]
       IN  pruner' = [ring |-> walk.ring,
                      it |-> IF ended THEN "none" ELSE pruner.it,
                      cycles |-> [pruner.cycles EXCEPT ![k] =
                          [c EXCEPT !.walked = c.walked \o walk.walked,
                                    !.yielded = c.yielded \o walk.item,
                                    !.state = IF ended THEN "ended" ELSE "open",
                                    !.after = walk.ring]]]
    /\ UNCHANGED <<api, fm, worker, chan, senders, sent, driverVars>>

\* The iterator is dropped before it ended.
RingDrop ==
    /\ pruner.it # "none"
    /\ pruner' = [pruner EXCEPT !.it = "none",
                                !.cycles[Len(pruner.cycles)].state = "dropped"]
    /\ UNCHANGED <<api, fm, worker, chan, senders, sent, driverVars>>

RingNext == RingSegmentIter \/ RingNextCycle \/ RingIter \/ RingIterNext \/ RingDrop

\* ------------------------------------------- a storage worker, as a step

\* The storage subtrees that were revealed into the trie a worker is given:
\* the empty root, one leaf, a branch with both leaves, and a branch whose
\* children are not revealed.
WorkerSubtrees ==
    {(<<>> :> EmptyRootNode),
     (<<>> :> StorLeaf0),
     StorBranchProof,
     (<<>> :> BranchNode((0 :> LeafHash(<<>>, EncodeValue(1)))
                         @@ (1 :> LeafHash(<<>>, EncodeValue(1)))))}

\* What take_storage_trie gives the worker: nothing, a trie that was made
\* for a subtree without root entry and is Blind, or a trie with one of the
\* subtrees revealed.
WorkerTries ==
    {None, Some(BlindTrie)}
    \cup {Some(revealed.trie) : revealed \in
            {r \in UNION {{reveal_decoded_storage_multiproof_inner(subtree, {}, BlindTrie,
                                                                     order) :
                              order \in Perms(DOMAIN subtree)} :
                          subtree \in WorkerSubtrees} : r.err = "Ok"}}

\* The storage mutations of a batch for one account.
Mutations ==
    {Mutation(wiped, storage) :
        wiped \in BOOLEAN,
        storage \in UNION {[slots -> 0..MaxValue] : slots \in SUBSET Slots}}

WorkerInit ==
    /\ DriverInit
    /\ api = ApiStart
    /\ fm = NoFilterCall
    /\ pruner = NoRing
    /\ worker \in {[status |-> "given", address |-> 0, storage |-> storage,
                     storage_trie |-> taken] :
                       storage \in Mutations, taken \in WorkerTries}

\* The worker runs over the slots in the order the map gives them and
\* sends its result.
WorkerSend ==
    /\ worker.status = "given"
    /\ \E order \in Perms(DOMAIN worker.storage.storage) :
          worker' = [status |-> "sent", address |-> worker.address,
                     storage |-> worker.storage, storage_trie |-> worker.storage_trie,
                     order |-> order,
                     result |-> StorageWorker(worker.address, worker.storage,
                                              worker.storage_trie, order)]
    /\ UNCHANGED <<api, fm, pruner, chan, senders, sent, driverVars>>

WorkerNext == WorkerSend

\* ------------------------------------------------------ specifications

Producer == (\E u \in Updates : Send(u)) \/ DropSender

Driver ==
    \/ Recv \/ RecvClosed \/ TryRecv \/ TryRecvEmpty
    \/ RevealAccount \/ RevealTake \/ RevealWork \/ RevealFold \/ RevealReturn
    \/ StorageTake \/ StorageWork \/ Fold \/ FoldDone
    \/ AccountUpdate \/ AccountsDone
    \/ Final

Next == Producer \/ Driver

Spec == Init /\ [][Next]_vars

\* The task's thread keeps running; the producer side is free to stop.
FairSpec == Spec /\ WF_vars(Driver)

\* A sparse state trie driven through its public methods, in any order.
ApiSpec == Init /\ [][ApiNext]_vars

\* A sparse state trie that is revealed and has its storage and its account
\* leaves written.
AccountSpec == Init /\ [][AccountNext]_vars

\* A sparse state trie that is revealed, has its storage written and wiped,
\* and is asked for its root and its delta.
RootSpec == RootInit /\ [][RootNext]_vars

\* One call of filter_map_revealed_nodes on any input.
FilterSpec == FilterSpecInit /\ [][FilterNext]_vars

\* A sparse state trie that has witnesses revealed between its other calls.
WitnessSpec == Init /\ [][WitnessNext]_vars

\* One storage worker on any job.
WorkerSpec == WorkerInit /\ [][WorkerNext]_vars

\* A ring of tables and the iterators taken over it, one after the other.
RingSpec == RingInit /\ [][RingNext]_vars

\* ------------------------------------------------------------ properties

\* The batch of the update_sparse_trie call that is running or ran last.
Batch == handed[Len(handed)].update

RECURSIVE ConcatParts(_)
\* The updates the batches of a history were assembled from, in order.
ConcatParts(batches) ==
    IF batches = <<>> THEN <<>>
    ELSE batches[1].parts \o ConcatParts(Tail(batches))

\* The updates received and not handed over yet.
InHand == IF pc = "try_recv" THEN parts ELSE <<>>

\* C1: the batches handed to update_sparse_trie, then the updates in hand,
\* then the queue, are exactly the updates sent, in order; every batch is
\* the left-to-right extend of a non-empty run of them; and when the run
\* ends without a failed batch, every update sent is in a batch.
C1_BatchesAreReceiveOrder ==
    /\ ConcatParts(handed) \o InHand \o chan = sent
    /\ \A i \in 1..Len(handed) :
          /\ handed[i].parts # <<>>
          /\ handed[i].update = ExtendAll(handed[i].parts)
    /\ (pc = "try_recv" => update = ExtendAll(parts))
    /\ (pc \in {"final", "done", "panicked"} /\ call.status # "failed"
           => ConcatParts(handed) = sent)

\* A run that applied one batch made of two different updates and ended.
C1_Witness ==
    /\ pc = "done" /\ outcome.kind = "Ok"
    /\ Len(handed) = 1 /\ Len(handed[1].parts) = 2
    /\ handed[1].parts[1] # handed[1].parts[2]
    /\ handed[1].update # handed[1].parts[1]

\* C2: root_with_updates is called at most once, and when it is called or
\* was called, every sender is dropped, the queue is empty, every update
\* sent was handed to update_sparse_trie and no call of it is running.
C2_RootOnceAfterClosure ==
    /\ root_calls <= 1
    /\ (pc = "final" \/ root_calls = 1) =>
          /\ senders = 0 /\ chan = <<>>
          /\ ConcatParts(handed) = sent
          /\ pc \in {"final", "done", "panicked"}
          /\ call.status \in {"none", "ok"}
          /\ todo = EmptyMap /\ jobs = {} /\ rx = <<>> /\ accounts = EmptyMap

\* The final root was computed after two batches were applied.
C2_Witness ==
    /\ root_calls = 1 /\ pc = "done"
    /\ Len(handed) = 2 /\ call.status = "ok"

\* C9: when run has returned, the outcome comes with the trie as it is; and
\* once a batch failed, run has returned an error, the final root was not
\* computed, the failed batch is the last one handed over and what was
\* queued behind it is still queued.
C9_FailedBatchEndsRun ==
    /\ (pc = "done" => outcome.kind \in {"Ok", "Err"} /\ outcome.trie = trie)
    /\ (call.status = "failed" =>
          /\ pc = "done" /\ outcome.kind = "Err"
          /\ root_calls = 0
          /\ ConcatParts(handed) \o chan = sent)
    /\ (outcome.kind = "Err" => call.status = "failed")
    /\ (outcome.kind = "Ok" => root_calls = 1 /\ call.status # "failed")

\* A batch failed while a later update was queued behind it.
C9_Witness ==
    /\ call.status = "failed" /\ pc = "done"
    /\ chan # <<>> /\ Len(handed) = 1

\* The storage mutations of the running or last call.
Storages == Batch.state.storages

\* What the worker of an address sends when it is given the trie the
\* container held before the parallel phase.
WorkerOutputs(address) ==
    {StorageWorker(address, Storages[address], <<call.before.tries[address]>>, order) :
        order \in Perms(DOMAIN Storages[address].storage)}

\* C4: in an update_sparse_trie call, an address with a storage mutation
\* whose account leaf was written has had its result folded: its trie is in
\* the container and is what its worker made of the trie taken for it (the
\* wipe and every slot write applied); and once an account-only update is
\* applied, the results of all storage mutations of the batch are folded.
C4_StorageBeforeAccountLeaf ==
    (call.status \in {"storages", "accounts", "ok", "failed"} /\ root_calls = 0
        /\ call.failed_in \notin {"reveal_account", "reveal_storages"}) =>
       /\ \A a \in call.wrote \cap DOMAIN Storages :
             /\ a \in call.folded
             /\ a \in DOMAIN trie.tries
             /\ a \in DOMAIN call.before.tries
             /\ \A j \in jobs : j.address # a
             /\ \E w \in WorkerOutputs(a) : w.ok /\ w.storage_trie = trie.tries[a]
       /\ (call.only # {} =>
             /\ call.folded = DOMAIN Storages
             /\ call.only \cap DOMAIN Storages = {}
             /\ todo = EmptyMap /\ jobs = {} /\ rx = <<>>)

\* A call that wrote the leaf of an account at the fold of its storage
\* result, changed that storage trie, and applied an account-only update.
C4_Witness ==
    /\ call.status = "ok" /\ root_calls = 0
    /\ \E a \in call.wrote \cap DOMAIN Storages :
          trie.tries[a] # call.before.tries[a]
    /\ call.only # {}

\* C6: a storage trie that a worker holds, or that is in a result not yet
\* folded, is not in the container, in the reveal and in the mutation phase
\* alike; and no two jobs or results are for the same account.
C6_WorkerOwnsItsTrie ==
    /\ pc = "storages" =>
          /\ \A j \in jobs : j.address \notin DOMAIN trie.tries
          /\ \A i \in 1..Len(rx) : rx[i].ok => rx[i].address \notin DOMAIN trie.tries
          /\ \A j1, j2 \in jobs : j1.address = j2.address => j1 = j2
          /\ \A i \in 1..Len(rx) : \A j \in jobs : rx[i].ok => rx[i].address # j.address
          /\ \A i, k \in 1..Len(rx) :
                (rx[i].ok /\ rx[k].ok /\ rx[i].address = rx[k].address) => i = k
    /\ pc = "reveal_storages" =>
          /\ \A j \in jobs : /\ j.account \notin DOMAIN trie.tries
                             /\ j.account \notin DOMAIN trie.revealed_paths
          /\ \A i \in 1..Len(rx) : /\ rx[i].account \notin DOMAIN trie.tries
                                   /\ rx[i].account \notin DOMAIN trie.revealed_paths
          /\ \A j1, j2 \in jobs : j1.account = j2.account => j1 = j2
          /\ \A i \in 1..Len(rx) : \A j \in jobs : rx[i].account # j.account
          /\ \A i, k \in 1..Len(rx) : rx[i].account = rx[k].account => i = k

\* Two workers of the mutation phase each hold a revealed storage trie.
C6_Witness ==
    /\ pc = "storages"
    /\ Cardinality(jobs) = 2
    /\ \A j \in jobs : j.storage_trie # <<>> /\ IsRevealed(j.storage_trie[1])

\* The storage reveal of the running or last call is over.
RevealIsOver ==
    \/ pc = "storages" /\ todo = Storages /\ jobs = {} /\ rx = <<>>
    \/ call.status = "failed" /\ call.failed_in = "reveal_storages"

\* What the reveal of the storage subtree of an account makes of the pair
\* the container held for it before the parallel phase.
RevealOutputs(before, account) ==
    LET p == take_or_create_revealed_paths(before, account)
        s == take_or_create_trie(p.trie, account)
        subtree == Batch.multiproof.storages[account]
    IN  {reveal_decoded_storage_multiproof_inner(subtree, p.taken, s.taken, order) :
            order \in Perms(DOMAIN subtree)}

\* C10: when the storage reveal is over, with or without an error, every
\* account of the multiproof has its trie and its path set in the
\* container, and they are what the reveal made of the pair taken for it:
\* an account whose reveal succeeded keeps its revealed nodes.
C10_RevealPutsEveryPairBack ==
    RevealIsOver =>
       \A a \in DOMAIN Batch.multiproof.storages :
          /\ a \in DOMAIN trie.tries
          /\ a \in DOMAIN trie.revealed_paths
          /\ \E r \in RevealOutputs(call.start, a) :
                /\ r.trie = trie.tries[a]
                /\ r.revealed_nodes = trie.revealed_paths[a]

\* The reveal failed for one account and revealed the storage trie of
\* another, which is in the container.
C10_Witness ==
    /\ call.status = "failed" /\ call.failed_in = "reveal_storages"
    /\ \E a, b \in DOMAIN Batch.multiproof.storages :
          /\ \A r \in RevealOutputs(call.start, a) : r.err # "Ok"
          /\ \A r \in RevealOutputs(call.start, b) : r.err = "Ok"
          /\ b \in DOMAIN trie.tries /\ IsRevealed(trie.tries[b])
          /\ b \notin DOMAIN call.start.tries

\* The leaf value of an account in the account trie, <<>> for none.
LeafOf(t, a) == get_account_value(t, a)

\* The storage root in the leaf of an account is the root of its storage
\* trie in the container.
Linked(t, a) ==
    /\ a \in DOMAIN t.tries
    /\ IsRevealed(t.tries[a])
    /\ IsAccountRlp(LeafOf(t, a)[1])
    /\ DecodeAccount(LeafOf(t, a)[1]).storage_root = RootHash(t.tries[a])

\* C5 as stated: after a successful update_sparse_trie, every account with
\* a storage mutation in the batch that has a leaf in the account trie has
\* the root of its storage trie as the storage root of the leaf.
C5_StorageRootLinkage ==
    (call.status = "ok" /\ root_calls = 0) =>
       \A a \in DOMAIN Storages : LeafOf(trie, a) # <<>> => Linked(trie, a)

\* C5, amended: after a successful update_sparse_trie, an account with a
\* storage mutation in the batch that has an account update in the batch or
\* is revealed, and has a leaf, has the root of its storage trie as the
\* storage root of the leaf; the leaf of any other account with a storage
\* mutation is left as it was before the storage mutations.
C5_LinkageWhereLeafIsWritten ==
    (call.status = "ok" /\ root_calls = 0) =>
       \A a \in DOMAIN Storages :
          IF a \in DOMAIN Batch.state.accounts \/ is_account_revealed(trie, a)
          THEN LeafOf(trie, a) # <<>> => Linked(trie, a)
          ELSE LeafOf(trie, a) = LeafOf(call.before, a)

\* A successful call changed the storage root of an account that keeps a
\* leaf, and the leaf has the new root.
C5_Witness ==
    /\ call.status = "ok" /\ root_calls = 0
    /\ \E a \in DOMAIN Storages :
          /\ a \in DOMAIN Batch.state.accounts \/ is_account_revealed(trie, a)
          /\ LeafOf(trie, a) # <<>>
          /\ RootHash(trie.tries[a]) # RootHash(call.before.tries[a])
          /\ RootHash(trie.tries[a]) # EMPTY_ROOT_HASH

\* The keys of a map in ascending order.
Ascending(S) ==
    CHOOSE s \in Perms(S) : \A i, j \in 1..Cardinality(S) : i < j => s[i] < s[j]

RECURSIVE RefTakeAndWork(_, _, _, _)
\* Every trie is taken and every worker runs, in ascending address order.
RefTakeAndWork(t, storages, addrs, results) ==
    IF addrs = <<>> THEN [trie |-> t, results |-> results]
    ELSE LET a == Head(addrs)
             r == take_storage_trie(t, a)
             w == StorageWorker(a, storages[a], r.taken,
                                Ascending(DOMAIN storages[a].storage))
         IN  RefTakeAndWork(r.trie, storages, Tail(addrs), Append(results, w))

RECURSIVE RefFold(_, _, _)
\* The fold loop over the results in the order given.
RefFold(t, accs, results) ==
    IF results = <<>> THEN [trie |-> t, err |-> "Ok", accounts |-> accs]
    ELSE IF ~Head(results).ok THEN [trie |-> t, err |-> Head(results).err, accounts |-> accs]
    ELSE LET f == FoldResult(t, accs, Head(results))
         IN  IF f.err # "Ok" THEN [trie |-> f.trie, err |-> f.err, accounts |-> f.accounts]
             ELSE RefFold(f.trie, f.accounts, Tail(results))

RECURSIVE RefAccounts(_, _, _)
\* The account-only loop in the order given.
RefAccounts(t, accs, addrs) ==
    IF addrs = <<>> THEN [trie |-> t, err |-> "Ok"]
    ELSE LET a == Head(addrs)
             r == update_account(t, a, IF accs[a] = <<>> THEN 0 ELSE accs[a][1])
         IN  IF r.err # "Ok" THEN [trie |-> r.trie, err |-> r.err]
             ELSE RefAccounts(r.trie, accs, Tail(addrs))

\* The mutation phases of update_sparse_trie run with every iteration and
\* every finish in ascending order.
RefUpdate(before, state) ==
    LET w == RefTakeAndWork(before, state.storages, Ascending(DOMAIN state.storages), <<>>)
        f == RefFold(w.trie, state.accounts, w.results)
    IN  IF f.err # "Ok" THEN [trie |-> f.trie, err |-> f.err]
        ELSE RefAccounts(f.trie, f.accounts, Ascending(DOMAIN f.accounts))

\* The mutation phases of the last call are over.
MutationIsOver ==
    /\ call.status \in {"ok", "failed"}
    /\ call.failed_in \notin {"reveal_account", "reveal_storages"}

\* A trie without its record of the branch nodes removed, which depends on
\* the order in which leaves are written and removed.
Unremoved(t) == IF IsRevealed(t) THEN [t EXCEPT !.removed = {}] ELSE t

\* The contents of a sparse state trie: everything but the scratch buffer
\* of the account encoding and the records of the branch nodes removed.
Contents(t) ==
    [t EXCEPT !.account_rlp_buf = <<>>,
              !.state = Unremoved(@),
              !.tries = [a \in DOMAIN @ |-> Unremoved(@[a])]]

\* The storage tries a delta reports as deleted.
DeletedIn(trie_updates) ==
    {a \in DOMAIN trie_updates.storage_tries : trie_updates.storage_tries[a].is_deleted}

\* C7 as stated: whatever the order in which the workers finish and their
\* results are folded, update_sparse_trie leaves the trie that the run in
\* ascending order leaves, and the outcome of run is the one that trie gives.
C7_FinishOrderIsIrrelevant ==
    MutationIsOver =>
       LET ref == RefUpdate(call.before, Batch.state)
       IN  /\ (ref.err = "Ok") = (call.status = "ok")
           /\ root_calls = 0 => Contents(trie) = Contents(ref.trie)
           /\ (pc = "done" /\ outcome.kind = "Ok") =>
                 LET r == root_with_updates(ref.trie)
                 IN  /\ outcome.state_root = r.state_root
                     /\ DeletedIn(outcome.trie_updates) = DeletedIn(r.trie_updates)
                     /\ Contents(trie) = Contents(r.trie)

\* When no worker and no account update fails, the finish order does not
\* show: the trie and the outcome are those of the run in ascending order.
FinishOrderIsIrrelevantOnSuccess ==
    (MutationIsOver /\ call.status = "ok") =>
       LET ref == RefUpdate(call.before, Batch.state)
       IN  /\ ref.err = "Ok"
           /\ root_calls = 0 => Contents(trie) = Contents(ref.trie)
           /\ (pc = "done" /\ outcome.kind = "Ok") =>
                 LET r == root_with_updates(ref.trie)
                 IN  /\ outcome.state_root = r.state_root
                     /\ DeletedIn(outcome.trie_updates) = DeletedIn(r.trie_updates)
                     /\ Contents(trie) = Contents(r.trie)

\* A batch fails in every finish order.
FailureIsOrderIndependent ==
    (MutationIsOver /\ call.status = "failed") =>
       RefUpdate(call.before, Batch.state).err # "Ok"

\* C8 as stated: when a worker failed, every result was folded before the
\* error was returned, and every account that had a storage trie in the
\* container before the parallel phase has one after the call.
C8_FailedWorkersAreDrained ==
    (call.status = "failed" /\ call.failed_in = "worker") =>
       /\ call.left = 0
       /\ \A a \in DOMAIN call.before.tries : a \in DOMAIN trie.tries

\* C3 as stated: once every sender is dropped, run eventually returns.
C3_ClosureLeadsToReturn == (senders = 0) ~> (pc = "done")

\* Once every sender is dropped, run returns or root_with_updates panics.
ClosureLeadsToReturnOrPanic == (senders = 0) ~> (pc \in {"done", "panicked"})

\* ------------------------------------- properties of the public methods

\* The call made last on the trie.
Last == api.log[Len(api.log)]

Revealed == api.log # <<>> /\ Last.op.name = "reveal_decoded_multiproof"

\* The results of the storage reveal of the last call that are errors, by
\* their place in the order they were folded.
FailedResults == {i \in 1..Len(Last.op.results) : Last.op.results[i] # "Ok"}

Lowest(S) == CHOOSE i \in S : \A j \in S : i <= j
Highest(S) == CHOOSE i \in S : \A j \in S : j <= i

\* C11 as stated: reveal_decoded_multiproof returns the error of the account
\* subtree if it has one, else the error of the first storage subtree whose
\* reveal failed.
C11_FirstErrorIsReturned ==
    Revealed =>
       /\ Last.op.account_err # "Ok" => Last.err = Last.op.account_err
       /\ (Last.op.account_err = "Ok" /\ FailedResults # {}) =>
             Last.err = Last.op.results[Lowest(FailedResults)]

\* C11, amended: the error of the account subtree is returned at once, with
\* no storage subtree revealed; else the call returns the error of the
\* failed storage result that is folded last, and Ok when none failed.
C11_LastStorageErrorIsReturned ==
    Revealed =>
       /\ Last.op.account_err # "Ok" =>
             /\ Last.err = Last.op.account_err
             /\ Last.op.results = <<>>
             /\ Last.trie.tries = Last.before.tries
             /\ Last.trie.revealed_paths = Last.before.revealed_paths
       /\ (Last.op.account_err = "Ok" /\ FailedResults # {}) =>
             Last.err = Last.op.results[Highest(FailedResults)]
       /\ (Last.op.account_err = "Ok" /\ FailedResults = {}) => Last.err = "Ok"

\* Two storage subtrees failed with different errors.
C11_Witness ==
    /\ Revealed
    /\ \E i, j \in FailedResults : Last.op.results[i] # Last.op.results[j]

\* The calls that reveal the multiproof that the call before them revealed.
SecondReveals ==
    {k \in 2..Len(api.log) :
        /\ api.log[k].op.name = "reveal_decoded_multiproof"
        /\ api.log[k - 1].op.name = "reveal_decoded_multiproof"
        /\ api.log[k].op.multiproof = api.log[k - 1].op.multiproof}

SecondRevealChangesNothingAfterFailure ==
    \A k \in SecondReveals : api.log[k].trie = api.log[k].before

ProofLeaves(subtree) ==
    {p \o subtree[p].key : p \in {q \in DOMAIN subtree : subtree[q].kind = "Leaf"}}

\* The call k reveals a multiproof that was revealed before, right after
\* the call that removed, from the account trie, a leaf that the multiproof
\* carries.
AccountLeafRemovedBefore(k, path) ==
    /\ k \in 3..Len(api.log)
    /\ api.log[k].op.name = "reveal_decoded_multiproof"
    /\ api.log[k - 1].op = [name |-> "remove_account_leaf", path |-> path]
    /\ api.log[k - 1].err = "Ok"
    /\ GetLeafValue(api.log[k - 1].before.state, path) # <<>>
    /\ path \in ProofLeaves(api.log[k].op.multiproof.account_subtree)
    /\ \E j \in 1..(k - 2) :
          /\ api.log[j].op.name = "reveal_decoded_multiproof"
          /\ api.log[j].op.multiproof = api.log[k].op.multiproof
          /\ api.log[j].err = "Ok"

\* The same for a leaf of the storage trie of an account.
StorageLeafRemovedBefore(k, address, slot) ==
    /\ k \in 3..Len(api.log)
    /\ api.log[k].op.name = "reveal_decoded_multiproof"
    /\ api.log[k - 1].op
          = [name |-> "remove_storage_leaf", address |-> address, slot |-> slot]
    /\ api.log[k - 1].err = "Ok"
    /\ GetLeafValue(api.log[k - 1].before.tries[address], slot) # <<>>
    /\ address \in DOMAIN api.log[k].op.multiproof.storages
    /\ slot \in ProofLeaves(api.log[k].op.multiproof.storages[address])
    /\ \E j \in 1..(k - 2) :
          /\ api.log[j].op.name = "reveal_decoded_multiproof"
          /\ api.log[j].op.multiproof = api.log[k].op.multiproof
          /\ api.log[j].err = "Ok"

\* The trie has no node at the path and no leaf value for it.
NoLeaf(t, path) ==
    /\ IsRevealed(t) => path \notin DOMAIN t.nodes
    /\ GetLeafValue(t, path) = <<>>

\* C13: when a leaf that a multiproof revealed was removed and the same
\* multiproof is revealed again, the reveal succeeds and the leaf stays
\* removed: no node at its path, no leaf value, in the account trie and in
\* a storage trie alike.
C13_RemovedLeafStaysRemoved ==
    \A k \in 1..Len(api.log) :
        /\ \A a \in Addrs :
              AccountLeafRemovedBefore(k, Unpack(a)) =>
                 /\ api.log[k].err = "Ok"
                 /\ NoLeaf(api.log[k].trie.state, Unpack(a))
        /\ \A a \in Addrs, s \in Slots :
              StorageLeafRemovedBefore(k, a, Unpack(s)) =>
                 /\ api.log[k].err = "Ok"
                 /\ a \in DOMAIN api.log[k].trie.tries
                 /\ NoLeaf(api.log[k].trie.tries[a], Unpack(s))

\* An account leaf was revealed, removed and its multiproof revealed again.
C13_Witness ==
    \E k \in 1..Len(api.log) : \E a \in Addrs : AccountLeafRemovedBefore(k, Unpack(a))

\* The same happened to a leaf of a storage trie.
StorageLeafWasRemoved ==
    \E k \in 1..Len(api.log) : \E a \in Addrs, s \in Slots :
        StorageLeafRemovedBefore(k, a, Unpack(s))

\* The trie knows a node for the path: it holds a node at the path, or a
\* leaf whose full path it is.
Known(t, path) ==
    IsRevealed(t) /\ (path \in DOMAIN t.nodes \/ GetLeafValue(t, path) # <<>>)

SinceClear ==
    LET clears == {k \in 1..Len(api.log) : api.log[k].op.name = "from_state_trie"}
    IN  IF clears = {} THEN 1..Len(api.log) ELSE (Highest(clears) + 1)..Len(api.log)

\* The account paths that a call names: the non-root paths of the account
\* subtree revealed, the path of the leaf written.
NamedAccountPaths(op) ==
    CASE op.name = "reveal_decoded_multiproof" ->
           DOMAIN op.multiproof.account_subtree \ {<<>>}
      [] op.name = "update_account_leaf" -> {op.path}
      [] op.name = "update_account" -> {Unpack(op.address)}
      [] OTHER -> {}

\* The account paths whose leaf a call wrote.
WrittenAccountPaths(k) ==
    IF api.log[k].op.name \in {"update_account_leaf", "update_account"}
          /\ api.log[k].err = "Ok"
    THEN NamedAccountPaths(api.log[k].op) ELSE {}

NamedStoragePaths(k, a) ==
    LET op == api.log[k].op
    IN  CASE op.name = "reveal_decoded_multiproof"
                /\ a \in DOMAIN op.multiproof.storages ->
               DOMAIN op.multiproof.storages[a] \ {<<>>}
          [] op.name = "update_storage_leaf" /\ op.address = a
                /\ api.log[k].err = "Ok" -> {op.slot}
          [] OTHER -> {}

\* The slots of an account that a call wrote.
WrittenStoragePaths(k, a) ==
    IF api.log[k].op.name = "update_storage_leaf" THEN NamedStoragePaths(k, a) ELSE {}

Cleared == api.log # <<>> /\ Last.op.name = "from_state_trie"

\* C16: after from_state_trie, on whatever trie, the account trie holds no
\* nodes, revealed_account_paths is empty, no account has a storage trie or
\* a revealed path set, and the RLP buffer is empty; the storage trie and
\* the path set of every account are in the pools, emptied.
C16_ClearedTrieIsEmpty ==
    Cleared =>
       /\ ~IsRevealed(api.trie.state)
       /\ api.trie.revealed_account_paths = {}
       /\ api.trie.tries = EmptyMap
       /\ api.trie.revealed_paths = EmptyMap
       /\ api.trie.account_rlp_buf = <<>>
       /\ Len(api.trie.cleared_tries)
             = Len(Last.before.cleared_tries) + Cardinality(DOMAIN Last.before.tries)
       /\ Len(api.trie.cleared_revealed_paths)
             = Len(Last.before.cleared_revealed_paths)
                  + Cardinality(DOMAIN Last.before.revealed_paths)
       /\ \A i \in 1..Len(api.trie.cleared_tries) :
             ~IsRevealed(api.trie.cleared_tries[i])
       /\ \A i \in 1..Len(api.trie.cleared_revealed_paths) :
             api.trie.cleared_revealed_paths[i] = {}

\* A trie with a revealed account trie, revealed account paths, a revealed
\* storage trie with revealed paths and a used RLP buffer was cleared.
C16_Witness ==
    /\ Cleared
    /\ IsRevealed(Last.before.state)
    /\ Last.before.revealed_account_paths # {}
    /\ \E a \in DOMAIN Last.before.tries : IsRevealed(Last.before.tries[a])
    /\ \E a \in DOMAIN Last.before.revealed_paths : Last.before.revealed_paths[a] # {}
    /\ Last.before.account_rlp_buf # <<>>

\* What the caller sees of a sparse state trie: everything but the pools.
Visible(t) == [t EXCEPT !.cleared_tries = <<>>, !.cleared_revealed_paths = <<>>]

\* The state root root_with_updates would give, or that it would panic.
StateRootOf(t) ==
    IF root_with_updates_panics(t) THEN [panic |-> TRUE]
    ELSE [panic |-> FALSE, state_root |-> root_with_updates(t).state_root]

\* A trie was used and then cleared.
Recycled ==
    \E k \in 2..Len(api.log) :
        /\ api.log[k].op.name = "from_state_trie"
        /\ Visible(api.log[k].before) # DefaultStateTrie

FilterOk == fm.status = "returned" /\ fm.result.err = "Ok"

\* The non-root entries that were revealed before the call, and the others.
SkippedPaths == (DOMAIN fm.proof_nodes \ {<<>>}) \cap fm.revealed_nodes
KeptPaths == (DOMAIN fm.proof_nodes \ {<<>>}) \ fm.revealed_nodes

\* C18: on success total_nodes counts every entry; the entry with the empty
\* path is returned as root_node, whether or not its path is in the
\* revealed set, and its path is not inserted there; a non-root entry whose
\* path was in the set is dropped and counted in skipped_nodes; every other
\* non-root entry is in nodes, once, and its path is in the set; so
\* total_nodes = skipped_nodes + |nodes| + (1 if there is a root entry).
C18_FilterPartitionsTheProof ==
    FilterOk =>
       /\ fm.result.total_nodes = Cardinality(DOMAIN fm.proof_nodes)
       /\ fm.result.root_node
             = IF <<>> \in DOMAIN fm.proof_nodes THEN <<fm.proof_nodes[<<>>]>> ELSE <<>>
       /\ <<>> \in fm.result.revealed_nodes <=> <<>> \in fm.revealed_nodes
       /\ fm.result.skipped_nodes = Cardinality(SkippedPaths)
       /\ Len(fm.result.nodes) = Cardinality(KeptPaths)
       /\ {fm.result.nodes[i] : i \in 1..Len(fm.result.nodes)}
             = {<<path, fm.proof_nodes[path]>> : path \in KeptPaths}
       /\ fm.result.revealed_nodes = fm.revealed_nodes \cup KeptPaths
       /\ fm.result.total_nodes
             = fm.result.skipped_nodes + Len(fm.result.nodes)
                  + (IF fm.result.root_node = <<>> THEN 0 ELSE 1)

\* The call of the test test_filter_map_revealed_nodes: a branch root with
\* two children and its two leaves, the path of one leaf revealed before.
C18_Witness ==
    /\ FilterOk
    /\ DOMAIN fm.proof_nodes = ProofPaths
    /\ fm.proof_nodes[<<>>] = BranchNode((0 :> EMPTY_ROOT_HASH) @@ (1 :> EMPTY_ROOT_HASH))
    /\ fm.proof_nodes[<<0>>].kind = "Leaf" /\ fm.proof_nodes[<<1>>].kind = "Leaf"
    /\ fm.revealed_nodes = {<<0>>}
    /\ fm.result.root_node = <<fm.proof_nodes[<<>>]>>
    /\ fm.result.nodes = <<(<<(<<1>>), fm.proof_nodes[<<1>>]>>)>>
    /\ fm.result.total_nodes = 3
    /\ fm.result.skipped_nodes = 1

\* What the claim counts for a node: one for the node; for a branch one more
\* for each bit of its state mask, for an extension one more.
CountedFor(node) ==
    IF node.kind = "Branch" THEN 1 + Cardinality(DOMAIN node.children)
    ELSE IF node.kind = "Extension" THEN 1 + 1
    ELSE 1

RECURSIVE CountedOver(_, _)
CountedOver(proof_nodes, paths) ==
    IF paths = {} THEN 0
    ELSE LET path == CHOOSE x \in paths : TRUE
         IN  CountedFor(proof_nodes[path]) + CountedOver(proof_nodes, paths \ {path})

\* C19: new_nodes is the sum, over the entries not skipped, the root entry
\* among them, of one for the node plus the number of its children: the
\* bits of the state mask of a branch, one for an extension, none for a
\* leaf or an empty root.
C19_NewNodesCountsChildren ==
    FilterOk =>
       fm.result.new_nodes
          = CountedOver(fm.proof_nodes, DOMAIN fm.proof_nodes \ SkippedPaths)

\* The call of the test, which gives new_nodes = 4: three for the branch
\* root, one for the leaf kept.
C19_Witness ==
    /\ FilterOk
    /\ DOMAIN fm.proof_nodes = ProofPaths
    /\ fm.proof_nodes[<<>>].kind = "Branch"
    /\ fm.proof_nodes[<<0>>].kind = "Leaf" /\ fm.proof_nodes[<<1>>].kind = "Leaf"
    /\ fm.revealed_nodes = {<<0>>}
    /\ fm.result.new_nodes = 4

\* A kept extension counts for two.
ExtensionCountsTwo ==
    /\ FilterOk
    /\ DOMAIN fm.proof_nodes = {<<1>>} /\ fm.proof_nodes[<<1>>].kind = "Extension"
    /\ fm.revealed_nodes = {}
    /\ fm.result.new_nodes = 2

\* C20: the call fails, with InvalidRootNode, exactly when the entry with
\* the empty path is an empty root and the proof has more than one entry;
\* on a proof that is an empty root alone it succeeds with that root as
\* root_node and no other node.
C20_InvalidRootNodeExactly ==
    fm.status = "returned" =>
       /\ fm.result.err \in {"Ok", "InvalidRootNode"}
       /\ fm.result.err = "InvalidRootNode" <=>
             /\ <<>> \in DOMAIN fm.proof_nodes
             /\ fm.proof_nodes[<<>>] = EmptyRootNode
             /\ Cardinality(DOMAIN fm.proof_nodes) > 1
       /\ fm.proof_nodes = (<<>> :> EmptyRootNode) =>
             /\ fm.result.err = "Ok"
             /\ fm.result.root_node = <<EmptyRootNode>>
             /\ fm.result.nodes = <<>>

\* A proof with an empty root and another entry, met after the other
\* entry, was refused.
C20_Witness ==
    /\ fm.status = "returned"
    /\ fm.result.err = "InvalidRootNode"
    /\ Len(fm.order) = 2 /\ fm.order[2] = <<>>

\* A proof that is an empty root alone was accepted.
EmptyRootAloneIsAccepted ==
    /\ FilterOk
    /\ fm.proof_nodes = (<<>> :> EmptyRootNode)
    /\ fm.result.root_node = <<EmptyRootNode>>

\* ------------------------- properties of the account leaves and roots

\* The calls of a method in the log.
CallsOf(name) == {k \in 1..Len(api.log) : api.log[k].op.name = name}

\* The basis update_account has for the storage root of an account.
BasisOf(t, address) ==
    IF address \in DOMAIN t.tries THEN "trie"
    ELSE IF ~is_account_revealed(t, address) THEN "none"
    ELSE IF get_account_value(t, address) # <<>> THEN "leaf"
    ELSE "new"

\* The storage root that basis gives.
BasisRoot(t, address) ==
    CASE BasisOf(t, address) = "trie" -> RootHash(t.tries[address])
      [] BasisOf(t, address) = "leaf" ->
           DecodeAccount(get_account_value(t, address)[1]).storage_root
      [] OTHER -> EMPTY_ROOT_HASH

\* C21: the storage root update_account writes is the root of the storage
\* trie of the account if the container holds one; otherwise the storage
\* root decoded from the leaf of the account if it is revealed and has a
\* leaf; otherwise EMPTY_ROOT_HASH if it is revealed; and when the account
\* has no storage trie and is not revealed the call fails with Blind and
\* changes no leaf.
C21_StorageRootBasis ==
    \A k \in CallsOf("update_account") :
       LET e == api.log[k]
           written == get_account_value(e.trie, e.op.address)
       IN  /\ BasisOf(e.before, e.op.address) = "none" =>
                 e.err = "Blind" /\ e.trie = e.before
           /\ (e.err = "Ok" /\ written # <<>>) =>
                 DecodeAccount(written[1]).storage_root = BasisRoot(e.before, e.op.address)

\* update_account wrote the root of the storage trie where the leaf of the
\* account held another storage root.
C21_Witness ==
    \E k \in CallsOf("update_account") :
       LET e == api.log[k]
           old == get_account_value(e.before, e.op.address)
           written == get_account_value(e.trie, e.op.address)
       IN  /\ e.err = "Ok" /\ old # <<>> /\ written # <<>>
           /\ BasisOf(e.before, e.op.address) = "trie"
           /\ DecodeAccount(written[1]).storage_root # DecodeAccount(old[1]).storage_root
           /\ DecodeAccount(written[1]).storage_root = RootHash(e.before.tries[e.op.address])

\* A successful update_account with the given basis that wrote a leaf.
WroteFrom(basis) ==
    \E k \in CallsOf("update_account") :
       /\ api.log[k].err = "Ok"
       /\ BasisOf(api.log[k].before, api.log[k].op.address) = basis
       /\ get_account_value(api.log[k].trie, api.log[k].op.address) # <<>>

\* The storage root of the leaf was written again, and it is not the empty
\* root.
WroteFromLeaf ==
    \E k \in CallsOf("update_account") :
       /\ api.log[k].err = "Ok"
       /\ BasisOf(api.log[k].before, api.log[k].op.address) = "leaf"
       /\ BasisRoot(api.log[k].before, api.log[k].op.address) # EMPTY_ROOT_HASH
       /\ get_account_value(api.log[k].trie, api.log[k].op.address) # <<>>

WroteFromNew == WroteFrom("new")

FailedWithoutBasis ==
    \E k \in CallsOf("update_account") : BasisOf(api.log[k].before, api.log[k].op.address) = "none"

\* update_account failed with Blind although the account is revealed and
\* has a leaf: the storage trie the container holds for it is Blind.
FailedOnBlindStorageTrie ==
    \E k \in CallsOf("update_account") :
       LET e == api.log[k]
       IN  /\ e.err = "Blind"
           /\ e.op.address \in DOMAIN e.before.tries
           /\ ~IsRevealed(e.before.tries[e.op.address])
           /\ is_account_revealed(e.before, e.op.address)

\* update_account has a storage root to go on: a basis, and a revealed
\* storage trie if the basis is the trie.
HasRoot(t, address) ==
    /\ BasisOf(t, address) # "none"
    /\ BasisOf(t, address) = "trie" => IsRevealed(t.tries[address])

\* The calls of update_account that came right after a wipe_storage that
\* wiped the storage trie of the same account.
UpdatesAfterWipe ==
    {k \in CallsOf("update_account") :
        /\ k > 1
        /\ api.log[k - 1].op.name = "wipe_storage"
        /\ api.log[k - 1].op.address = api.log[k].op.address
        /\ api.log[k - 1].err = "Ok"
        /\ api.log[k].op.address \in DOMAIN api.log[k - 1].before.tries}

\* C22: a successful update_account leaves no leaf for the account if the
\* new info is empty and the effective storage root is EMPTY_ROOT_HASH, and
\* in every other case leaves the leaf TrieAccount{info, storage_root}; a
\* failed one changes no leaf. So after a storage trie was wiped, an
\* update of its account with an empty info removes the leaf.
C22_LeafRemovedIffEmpty ==
    /\ \A k \in CallsOf("update_account") :
          LET e == api.log[k]
              written == get_account_value(e.trie, e.op.address)
          IN  /\ (e.err = "Ok" /\ HasRoot(e.before, e.op.address)) =>
                    IF e.op.account = 0 /\ BasisRoot(e.before, e.op.address) = EMPTY_ROOT_HASH
                    THEN NoLeaf(e.trie.state, Unpack(e.op.address))
                    ELSE written = <<AcctVal(e.op.account, BasisRoot(e.before, e.op.address))>>
              /\ e.err = "Ok" => HasRoot(e.before, e.op.address)
              /\ e.err # "Ok" => e.trie.state = e.before.state
    /\ \A k \in UpdatesAfterWipe :
          (api.log[k].err = "Ok" /\ api.log[k].op.account = 0) =>
             NoLeaf(api.log[k].trie.state, Unpack(api.log[k].op.address))

\* The storage trie of an account was wiped, and the update of the account
\* with an empty info removed the leaf it had.
C22_Witness ==
    \E k \in UpdatesAfterWipe :
       /\ api.log[k].err = "Ok" /\ api.log[k].op.account = 0
       /\ get_account_value(api.log[k].before, api.log[k].op.address) # <<>>
       /\ NoLeaf(api.log[k].trie.state, Unpack(api.log[k].op.address))

\* An empty info was written as a leaf, for its storage root is not empty.
EmptyInfoWasWritten ==
    \E k \in CallsOf("update_account") :
       /\ api.log[k].err = "Ok" /\ api.log[k].op.account = 0
       /\ get_account_value(api.log[k].trie, api.log[k].op.address) # <<>>

\* A non-empty info was written with the empty storage root.
EmptyRootWasWritten ==
    \E k \in CallsOf("update_account") :
       /\ api.log[k].err = "Ok" /\ api.log[k].op.account # 0
       /\ get_account_value(api.log[k].trie, api.log[k].op.address)
             = <<AcctVal(api.log[k].op.account, EMPTY_ROOT_HASH)>>

\* wipe_storage of an account that has no storage trie wipes nothing: the
\* update with an empty info that follows wrote the leaf, with the storage
\* root the leaf had.
WipeOfNoTrieRemovesNothing ==
    \E k \in CallsOf("update_account") :
       /\ k > 1 /\ api.log[k - 1].op.name = "wipe_storage"
       /\ api.log[k - 1].op.address = api.log[k].op.address
       /\ api.log[k].err = "Ok" /\ api.log[k].op.account = 0
       /\ get_account_value(api.log[k].trie, api.log[k].op.address) # <<>>

\* C23: update_account_storage_root fails with Blind and changes nothing
\* when the account is not revealed; changes nothing and succeeds when the
\* account is revealed and has no leaf; otherwise, when it succeeds, the
\* leaf is the one it was with only the storage root replaced, by the root
\* of the storage trie of the account or by EMPTY_ROOT_HASH when it has
\* none, and the leaf is removed when that is the default account.
C23_OnlyStorageRootReplaced ==
    \A k \in CallsOf("update_account_storage_root") :
       LET e == api.log[k]
           address == e.op.address
           old == get_account_value(e.before, address)
           written == get_account_value(e.trie, address)
       IN  IF ~is_account_revealed(e.before, address)
           THEN e.err = "Blind" /\ e.trie = e.before
           ELSE IF old = <<>>
           THEN e.err = "Ok" /\ e.trie = e.before
           ELSE IF e.err # "Ok"
           THEN e.trie.state = e.before.state
           ELSE LET storage_root ==
                        IF address \in DOMAIN e.before.tries
                        THEN RootHash(e.before.tries[address])
                        ELSE EMPTY_ROOT_HASH
                    info == DecodeAccount(old[1]).info
                IN  IF info = 0 /\ storage_root = EMPTY_ROOT_HASH
                    THEN NoLeaf(e.trie.state, Unpack(address))
                    ELSE /\ written # <<>>
                         /\ DecodeAccount(written[1]).info = info
                         /\ DecodeAccount(written[1]).storage_root = storage_root

\* The storage root of a leaf was replaced by the root of the storage trie,
\* which had changed.
C23_Witness ==
    \E k \in CallsOf("update_account_storage_root") :
       LET e == api.log[k]
           old == get_account_value(e.before, e.op.address)
           written == get_account_value(e.trie, e.op.address)
       IN  /\ e.err = "Ok" /\ old # <<>> /\ written # <<>>
           /\ e.op.address \in DOMAIN e.before.tries
           /\ DecodeAccount(written[1]).storage_root # DecodeAccount(old[1]).storage_root
           /\ DecodeAccount(written[1]).storage_root
                 = RootHash(e.before.tries[e.op.address])
           /\ DecodeAccount(written[1]).info = DecodeAccount(old[1]).info

\* The leaf was removed: the storage was emptied and the info was empty.
StorageRootUpdateRemovedLeaf ==
    \E k \in CallsOf("update_account_storage_root") :
       /\ api.log[k].err = "Ok"
       /\ get_account_value(api.log[k].before, api.log[k].op.address) # <<>>
       /\ NoLeaf(api.log[k].trie.state, Unpack(api.log[k].op.address))

\* The account has no storage trie: the empty root replaced the root of
\* the leaf.
StorageRootUpdateWithoutTrie ==
    \E k \in CallsOf("update_account_storage_root") :
       LET e == api.log[k]
           old == get_account_value(e.before, e.op.address)
           written == get_account_value(e.trie, e.op.address)
       IN  /\ e.err = "Ok" /\ old # <<>> /\ written # <<>>
           /\ e.op.address \notin DOMAIN e.before.tries
           /\ DecodeAccount(old[1]).storage_root # EMPTY_ROOT_HASH
           /\ DecodeAccount(written[1]).storage_root = EMPTY_ROOT_HASH

\* The call was a no-op on a revealed account without leaf.
StorageRootUpdateWithoutLeaf ==
    \E k \in CallsOf("update_account_storage_root") :
       /\ is_account_revealed(api.log[k].before, api.log[k].op.address)
       /\ get_account_value(api.log[k].before, api.log[k].op.address) = <<>>

\* The call failed on an account that is revealed and has a leaf.
StorageRootUpdateFailed ==
    \E k \in CallsOf("update_account_storage_root") :
       /\ api.log[k].err # "Ok"
       /\ get_account_value(api.log[k].before, api.log[k].op.address) # <<>>

\* A call of root_with_updates revealed the Blind account trie as the empty
\* root and returned the empty root hash.
FetchedEmptyRoot(e) ==
    /\ e.err = "Ok"
    /\ e.op.state_root = EMPTY_ROOT_HASH
    /\ IsRevealed(e.trie.state)
    /\ e.trie.state.nodes = (<<>> :> SEmpty)

\* C24 as stated: root_with_updates on a sparse state trie whose account
\* trie is Blind reveals it as the empty root, the provider having no root
\* node, and succeeds with the state root EMPTY_ROOT_HASH.
C24_BlindFetchSucceeds ==
    \A k \in CallsOf("root_with_updates") :
       ~IsRevealed(api.log[k].before.state) => FetchedEmptyRoot(api.log[k])

\* The same of the calls that get past storage_trie_updates.
BlindFetchSucceedsUnlessPanic ==
    \A k \in CallsOf("root_with_updates") :
       (~IsRevealed(api.log[k].before.state) /\ api.log[k].err # "panicked") =>
          FetchedEmptyRoot(api.log[k])

\* root_with_updates on a default trie succeeded.
BlindFetchOnDefault ==
    \E k \in CallsOf("root_with_updates") :
       api.log[k].before = DefaultStateTrie /\ FetchedEmptyRoot(api.log[k])

\* root_with_updates panicked on a trie whose account trie is Blind.
BlindFetchPanicked ==
    \E k \in CallsOf("root_with_updates") :
       ~IsRevealed(api.log[k].before.state) /\ api.log[k].err = "panicked"

\* ------------------------------------ properties of roots and deltas

\* The calls of root_with_updates that returned.
RootCalls == {k \in CallsOf("root_with_updates") : api.log[k].err = "Ok"}

\* A revealed trie has something in its pending delta.
HasDelta(t) == t.wiped \/ t.removed # {}

\* The accounts that have a storage trie with a pending delta.
WithDelta(t) == {a \in DOMAIN t.tries : HasDelta(t.tries[a])}

\* C25: root_with_updates returns in storage_tries the accounts whose
\* storage trie has a non-empty pending delta, and no other; after it no
\* storage trie and not the account trie has a pending delta; and a second
\* root_with_updates right after it returns the same root, an empty account
\* delta and an empty storage_tries map.
C25_DeltasAreDrained ==
    \A k \in RootCalls :
       LET e == api.log[k]
       IN  /\ DOMAIN e.op.trie_updates.storage_tries = WithDelta(e.before)
           /\ WithDelta(e.trie) = {}
           /\ ~HasDelta(e.trie.state)
           /\ (k - 1) \in RootCalls =>
                 /\ e.op.state_root = api.log[k - 1].op.state_root
                 /\ e.op.trie_updates.account_nodes = EmptyMap
                 /\ e.op.trie_updates.removed_nodes = {}
                 /\ e.op.trie_updates.storage_tries = EmptyMap

\* root_with_updates returned a storage delta for one account and none for
\* another that has a storage trie, or an account delta, and the call right
\* after it returned the same root and nothing else.
C25_Witness ==
    \E k \in RootCalls :
       /\ (k - 1) \in RootCalls
       /\ api.log[k - 1].op.trie_updates.storage_tries # EmptyMap
       /\ api.log[k].op.trie_updates.storage_tries = EmptyMap
       /\ api.log[k].op.state_root = api.log[k - 1].op.state_root

\* A storage trie without a pending delta was left out of storage_tries.
EmptyDeltaWasOmitted ==
    \E k \in RootCalls :
       \E a \in DOMAIN api.log[k].before.tries :
          a \notin DOMAIN api.log[k].op.trie_updates.storage_tries

\* The account trie had a delta, which the next call did not return again.
AccountDeltaWasDrained ==
    \E k \in RootCalls :
       /\ (k - 1) \in RootCalls
       /\ api.log[k - 1].op.trie_updates.removed_nodes # {}
       /\ api.log[k].op.trie_updates.removed_nodes = {}

\* The calls before call k that came after the last root_with_updates that
\* returned before k.
SinceDrain(k) ==
    {j \in 1..(k - 1) : \A i \in RootCalls : i < k => i < j}

\* The storage trie of the account was wiped since its delta was drained.
WipedSinceDrain(k, address) ==
    \E j \in SinceDrain(k) :
       /\ api.log[j].op.name = "wipe_storage"
       /\ api.log[j].op.address = address
       /\ api.log[j].err = "Ok"
       /\ address \in DOMAIN api.log[j].before.tries

\* A leaf of the storage trie of the account was written since call j.
WrittenAfter(j, k, address) ==
    \E i \in (j + 1)..(k - 1) :
       /\ api.log[i].op.name \in {"update_storage_leaf", "remove_storage_leaf"}
       /\ api.log[i].op.address = address

WipedWasReported ==
    \E k \in RootCalls :
       \E a \in DOMAIN api.log[k].op.trie_updates.storage_tries :
          /\ api.log[k].op.trie_updates.storage_tries[a]
                = [is_deleted |-> TRUE, storage_nodes |-> EmptyMap, removed_nodes |-> {}]
          /\ \E j \in SinceDrain(k) :
                api.log[j].op.name = "remove_storage_leaf" /\ api.log[j].op.address = a
                   /\ api.log[j].trie.tries[a].removed # {}

\* A storage trie that was wiped and written to afterwards is reported as
\* deleted.
WipedAndWrittenWasReported ==
    \E k \in RootCalls :
       \E a \in DOMAIN api.log[k].op.trie_updates.storage_tries :
          /\ api.log[k].op.trie_updates.storage_tries[a].is_deleted
          /\ RootHash(api.log[k].before.tries[a]) # EMPTY_ROOT_HASH


\* --------------------------------------- properties of the segment ring

\* The iterators taken so far, by their place.
Cycles == DOMAIN pruner.cycles

\* The tables of a ring: the static file tables and, for a TableRing, one
\* for each segment.
TablesOf(r) ==
    IF IsTableRing(r)
    THEN {StaticFiles(t) : t \in StaticFileTableRefs}
         \cup {Other(i) : i \in 0..(Len(r.segments) - 1)}
    ELSE StaticFileTableRefs

\* The ring is at its start table and has not moved since: a new ring or
\* a ring whose cycle was reset.
AtStart(r) ==
    /\ r.prev = None
    /\ r.current = r.start
    /\ IsTableRing(r) =>
          /\ r.static_file_ring.prev = None
          /\ r.static_file_ring.current = r.static_file_ring.start

\* The tables walked, in order.
TablesWalked(c) == [i \in DOMAIN c.walked |-> c.walked[i].table]

\* Each table of the ring is walked exactly once.
EachTableOnce(c) ==
    /\ Len(c.walked) = Cardinality(TablesOf(c.start))
    /\ {c.walked[i].table : i \in DOMAIN c.walked} = TablesOf(c.start)

\* C27: a SegmentIter over a ring that is at its start table, iterated until
\* it returns None, yields exactly one item for each table, which is three
\* and the number of segments for a TableRing and three for a
\* StaticFileTableRing, and leaves the ring with the start table as its
\* current table and without a previous table.
C27_OneItemPerTable ==
    \A k \in Cycles :
        LET c == pruner.cycles[k]
        IN  (c.by # "iter" /\ c.state = "ended" /\ AtStart(c.start)) =>
                /\ EachTableOnce(c)
                /\ Len(c.yielded) = Len(c.walked)
                /\ Len(c.yielded) = IF IsTableRing(c.start)
                                    THEN 3 + Len(c.start.segments)
                                    ELSE 3
                /\ c.after.current = c.start.start
                /\ c.after.prev = None

\* A SegmentIter made on a new TableRing that starts at a segment ended.
C27_Witness ==
    \E k \in Cycles :
        LET c == pruner.cycles[k]
        IN  /\ c.by = "SegmentIter" /\ c.state = "ended" /\ AtStart(c.start)
            /\ IsTableRing(c.start)
            /\ c.start.start = Other(1)
            /\ Len(c.yielded) = 5

\* A SegmentIter over a StaticFileTableRing that starts at its last table
\* ended.
StaticFileCycleEnded ==
    \E k \in Cycles :
        LET c == pruner.cycles[k]
        IN  /\ c.by = "SegmentIter" /\ c.state = "ended"
            /\ ~IsTableRing(c.start)
            /\ c.start.start = "Receipts"
            /\ Len(c.yielded) = 3

\* A SegmentIter made on a ring whose last iterator was dropped goes on
\* with the cycle of that iterator and yields fewer items.
DroppedCycleWasResumed ==
    \E k \in Cycles :
        LET c == pruner.cycles[k]
        IN  /\ c.by = "SegmentIter" /\ c.state = "ended" /\ ~AtStart(c.start)
            /\ Len(c.yielded) < Cardinality(TablesOf(c.start))


\* An iterator over a TableRing that next_cycle or iter made right after an
\* iterator that was dropped, and that ended.
AfterDropped(k) ==
    /\ k > 1
    /\ pruner.cycles[k - 1].state = "dropped"
    /\ IsTableRing(pruner.cycles[k].start)
    /\ pruner.cycles[k].by \in {"next_cycle", "iter"}
    /\ pruner.cycles[k].state = "ended"

\* C28: when a cycle over a TableRing is dropped before it ended, the next
\* cycle that iter or next_cycle starts begins at the table where the dropped
\* one stopped, walks every table exactly once from there, and ends with
\* that table as the current table and without a previous table.
C28_NextCycleAfterDrop ==
    \A k \in Cycles :
        AfterDropped(k) =>
            LET stopped == pruner.cycles[k - 1].after.current
                c == pruner.cycles[k]
            IN  /\ c.walked[1].table = stopped
                /\ EachTableOnce(c)
                /\ c.after.current = stopped
                /\ c.after.prev = None

\* A cycle was dropped after two segments were yielded, at Other(1) of a
\* ring that started at the first static file table, and the next ended.
C28_Witness ==
    \E k \in Cycles :
        /\ AfterDropped(k)
        /\ pruner.cycles[k - 1].by = "iter"
        /\ pruner.cycles[k - 1].start.start = StaticFiles("Headers")
        /\ Len(pruner.cycles[k - 1].yielded) = 2
        /\ pruner.cycles[k - 1].after.current = Other(1)
        /\ pruner.cycles[k].after.current = Other(1)

\* A cycle was dropped among the static file tables, and the next ended.
DroppedAmongStaticFiles ==
    \E k \in Cycles :
        /\ AfterDropped(k)
        /\ pruner.cycles[k - 1].walked # <<>>
        /\ pruner.cycles[k - 1].after.current = StaticFiles("Receipts")
        /\ pruner.cycles[k].after.current = StaticFiles("Receipts")


\* What one cycle of iter is to yield: every configured segment, and the
\* segment of every static file table that has something to prune.
ToPrune(r) ==
    {Prunable(r.segments[i], "User") : i \in DOMAIN r.segments}
    \cup {Prunable(StaticFileSegment(t), "StaticFile") : t \in r.static_file_ring.provider}

\* A cycle that TableRing::iter made and that ended.
FullIter(k) ==
    /\ k \in Cycles
    /\ pruner.cycles[k].by = "iter"
    /\ pruner.cycles[k].state = "ended"
    /\ IsTableRing(pruner.cycles[k].start)

\* C29: one cycle of TableRing::iter yields every configured segment exactly
\* once and one item for each static file table that has something to prune,
\* and nothing for the other static file tables; two full cycles in a row
\* yield twice that and end at the start table.
C29_IterYieldsWhatIsToPrune ==
    \A k \in Cycles :
        FullIter(k) =>
            LET c == pruner.cycles[k]
                size == Len(c.start.segments)
                          + Cardinality(c.start.static_file_ring.provider)
            IN  /\ Len(c.yielded) = size
                /\ {c.yielded[i] : i \in DOMAIN c.yielded} = ToPrune(c.start)
                /\ FullIter(k - 1) =>
                      /\ Len(pruner.cycles[k - 1].yielded) + Len(c.yielded) = 2 * size
                      /\ c.after.current = pruner.cycles[k - 1].start.start

\* Two full cycles of iter in a row over a ring of two segments with one
\* static file table that has something to prune.
C29_Witness ==
    /\ FullIter(1)
    /\ FullIter(2)
    /\ Len(pruner.cycles[1].start.segments) = 2
    /\ pruner.cycles[1].start.static_file_ring.provider = {"Headers"}
    /\ Len(pruner.cycles[2].yielded) = 3

\* A full cycle of iter over a ring without static files to prune.
IterWithoutStaticFiles ==
    /\ FullIter(1)
    /\ pruner.cycles[1].start.static_file_ring.provider = {}
    /\ Len(pruner.cycles[1].walked) = 5
    /\ Len(pruner.cycles[1].yielded) = 2


\* ------------------------------------------------ properties of the fold

\* The account update that the batch still held for the address of a fold.
UpdateHeld(f) == f.result.address \in DOMAIN f.accounts

\* The trie of a fold after the storage trie was put back.
PutBack(f) == insert_storage_trie(f.before, f.result.address, f.result.storage_trie)

\* C30: the fold of a storage result for an address calls update_account
\* with the account update of the batch when the batch holds one for the
\* address and takes it out of the batch; else it calls
\* update_account_storage_root when the account is revealed; else it leaves
\* the account trie as it was; an address is folded once, in one of the three
\* ways.
C30_FoldUpdatesTheAccountOnce ==
    /\ \A i \in DOMAIN call.folds :
          LET f == call.folds[i]
              a == f.result.address
              then == [trie |-> f.trie, err |-> f.err]
          IN  /\ f.called \in {"update_account", "update_account_storage_root", "none"}
              /\ UpdateHeld(f) =>
                    /\ f.called = "update_account"
                    /\ then = update_account(PutBack(f), a,
                                   IF f.accounts[a] = <<>> THEN 0 ELSE f.accounts[a][1])
                    /\ a \notin DOMAIN f.left
              /\ (~UpdateHeld(f) /\ is_account_revealed(f.before, a)) =>
                    /\ f.called = "update_account_storage_root"
                    /\ then = update_account_storage_root(PutBack(f), a)
                    /\ f.left = f.accounts
              /\ (~UpdateHeld(f) /\ ~is_account_revealed(f.before, a)) =>
                    /\ f.called = "none"
                    /\ f.err = "Ok"
                    /\ f.trie.state = f.before.state
                    /\ f.trie = PutBack(f)
                    /\ f.left = f.accounts
    /\ \A i, j \in DOMAIN call.folds :
          call.folds[i].result.address = call.folds[j].result.address => i = j

\* One call folded two addresses: one with update_account, the other with
\* update_account_storage_root.
C30_Witness ==
    /\ Len(call.folds) = 2
    /\ {call.folds[i].called : i \in DOMAIN call.folds}
          = {"update_account", "update_account_storage_root"}
    /\ \A i \in DOMAIN call.folds : call.folds[i].err = "Ok"

\* A fold left the account trie as it was: the batch held no update for the
\* account and the account was not revealed.
FoldSkippedAccount ==
    \E i \in DOMAIN call.folds :
        /\ call.folds[i].called = "none"
        /\ ~UpdateHeld(call.folds[i])

\* A fold called update_account on an account that was revealed.
FoldPreferredTheUpdate ==
    \E i \in DOMAIN call.folds :
        /\ call.folds[i].called = "update_account"
        /\ is_account_revealed(call.folds[i].before, call.folds[i].result.address)

\* A fold failed in the method it called.
FoldFailed ==
    \E i \in DOMAIN call.folds :
        /\ call.folds[i].called # "none"
        /\ call.folds[i].err # "Ok"


\* ------------------------------------- properties of update_sparse_trie

\* The calls of a method of the trie on the account leaf of an address that
\* the running or last update_sparse_trie call made: the folds that called
\* one, and the account-only pass.
FoldWrites(address) ==
    {i \in DOMAIN call.folds :
        call.folds[i].result.address = address /\ call.folds[i].called # "none"}

FoldUpdates(address) ==
    {i \in FoldWrites(address) : call.folds[i].called = "update_account"}

PassUpdates(address) ==
    {i \in DOMAIN call.applied : call.applied[i].address = address}

\* C31: in an update_sparse_trie call that returned Ok the account leaf of an
\* address is written or removed by at most one call of update_account or
\* update_account_storage_root; an account update that was applied at the
\* fold of the storage result of its address is not applied in the pass over
\* the account updates; and each account update of the batch is applied by
\* exactly one update_account, with the account of the batch.
C31_AccountLeafWrittenOnce ==
    call.status = "ok" =>
        \A a \in Addrs :
            /\ Cardinality(FoldWrites(a)) + Cardinality(PassUpdates(a)) <= 1
            /\ FoldUpdates(a) # {} => PassUpdates(a) = {}
            /\ IF a \in DOMAIN Batch.state.accounts
               THEN /\ Cardinality(FoldUpdates(a)) + Cardinality(PassUpdates(a)) = 1
                    /\ \A i \in FoldUpdates(a) :
                          call.folds[i].accounts[a] = Batch.state.accounts[a]
                    /\ \A i \in PassUpdates(a) :
                          call.applied[i].account = Batch.state.accounts[a]
               ELSE FoldUpdates(a) = {} /\ PassUpdates(a) = {}

\* A call returned Ok after it applied the account updates of two addresses
\* at the folds of their storage results.
C31_Witness ==
    /\ call.status = "ok"
    /\ \A a \in Addrs : FoldUpdates(a) # {}
    /\ call.applied = <<>>

\* A call returned Ok after one fold updated the storage root in the leaf of
\* an address and the pass over the account updates applied the update of
\* another.
FoldAndPassWrote ==
    /\ call.status = "ok"
    /\ \E a, b \in Addrs :
          /\ a # b
          /\ FoldWrites(a) # {}
          /\ PassUpdates(b) # {}


\* What reveal_decoded_multiproof makes of the trie the call was entered
\* with, for each of the orders it may meet.
RevealsOfBatch ==
    {reveal_decoded_multiproof(call.entry, Batch.multiproof, ord) :
        ord \in RevealOrders(Batch.multiproof)}

\* The update_sparse_trie call is over.
CallIsOver == call.status \in {"ok", "failed"}

\* The call returned the error of its reveal.
FailedInReveal ==
    call.status = "failed" /\ call.failed_in \in {"reveal_account", "reveal_storages"}

\* C32: when reveal_decoded_multiproof fails in update_sparse_trie the call
\* returns that error before any mutation: the trie is as the reveal left
\* it, no storage trie is out of the container, and no storage mutation and
\* no account update of the batch was applied.
C32_FailedRevealAbortsBatch ==
    /\ (CallIsOver /\ \A r \in RevealsOfBatch : r.err # "Ok") => FailedInReveal
    /\ FailedInReveal =>
          /\ \E r \in RevealsOfBatch :
                /\ r.err = outcome.err
                /\ r.trie = trie
          /\ outcome.trie = trie
          /\ DOMAIN call.entry.tries \subseteq DOMAIN trie.tries
          /\ call.folds = <<>>
          /\ call.applied = <<>>
          /\ call.wrote = {}

\* A call whose batch has storage mutations and an account update returned
\* the error of the reveal of a storage subtree.
C32_Witness ==
    /\ FailedInReveal
    /\ call.failed_in = "reveal_storages"
    /\ Batch.state.storages # EmptyMap
    /\ Batch.state.accounts # EmptyMap

\* A call returned the error of the reveal of the account subtree.
FailedInAccountReveal ==
    /\ FailedInReveal
    /\ call.failed_in = "reveal_account"


\* The call went past its reveal to the storage mutations of the batch.
PastReveal ==
    \/ call.status \in {"storages", "accounts", "ok"}
    \/ call.status = "failed" /\ ~FailedInReveal

\* The accounts with a storage mutation in the batch and no storage trie in
\* the container after the reveal.
WithoutTrie == DOMAIN Storages \ DOMAIN call.before.tries

\* C33: when the batch has a storage mutation for an account that has no
\* storage trie in the container after the reveal, the worker of that
\* account is given no trie and sends Err(Blind), no trie is made for the
\* account, and update_sparse_trie returns an error.
C33_MissingTrieFailsBlind ==
    /\ pc = "storages" =>
          \A job \in jobs :
              /\ job.storage_trie = <<>> <=> job.address \in WithoutTrie
              /\ job.storage_trie = <<>> =>
                    \A order \in Perms(DOMAIN job.storage.storage) :
                        StorageWorker(job.address, job.storage, job.storage_trie, order)
                            = [ok |-> FALSE, err |-> "Blind"]
    /\ (PastReveal /\ WithoutTrie # {}) =>
          /\ call.status # "ok"
          /\ \A a \in WithoutTrie : a \notin DOMAIN trie.tries
          /\ \A i \in DOMAIN call.folds : call.folds[i].result.address \notin WithoutTrie

\* A call returned the Blind of the worker of an account without storage
\* trie.
C33_Witness ==
    /\ call.status = "failed"
    /\ call.failed_in = "worker"
    /\ outcome.err = "Blind"
    /\ WithoutTrie # {}


\* ------------------------------------ properties of the storage worker

\* The worker sent Ok with the trie.
WorkerSentOk == worker.status = "sent" /\ worker.result.ok

\* The slots of the mutation that are written with a value that is not zero.
NonZeroSlots == {slot \in DOMAIN worker.storage.storage : worker.storage.storage[slot] # 0}

\* C34: a storage worker that succeeds on a revealed trie has wiped it
\* first when the mutation is wiped and then, for each slot, removed the
\* leaf when the value is zero and written it when it is not: no slot
\* written with zero has a leaf, every other slot of the mutation has its
\* value, a wiped trie holds exactly the slots written with a value that is
\* not zero, and a trie that is not wiped keeps its other leaves.
C34_WorkerWipesThenWrites ==
    (WorkerSentOk /\ IsRevealed(worker.storage_trie[1])) =>
        LET given == worker.storage_trie[1]
            t == worker.result.storage_trie
            storage == worker.storage.storage
        IN  /\ IsRevealed(t)
            /\ \A slot \in DOMAIN storage :
                  GetLeafValue(t, Unpack(slot)) =
                      IF storage[slot] = 0 THEN <<>> ELSE <<EncodeValue(storage[slot])>>
            /\ worker.storage.wiped =>
                  /\ DOMAIN t.values = {Unpack(slot) : slot \in NonZeroSlots}
                  /\ t.wiped
            /\ ~worker.storage.wiped =>
                  \A slot \in Slots \ DOMAIN storage :
                      GetLeafValue(t, Unpack(slot)) = GetLeafValue(given, Unpack(slot))

\* A wiped mutation that writes one slot with zero and the other with a
\* value was applied to a trie that held both slots.
C34_Witness ==
    /\ WorkerSentOk
    /\ worker.storage.wiped
    /\ DOMAIN worker.storage.storage = Slots
    /\ Cardinality(NonZeroSlots) = 1
    /\ DOMAIN worker.storage_trie[1].values = {Unpack(slot) : slot \in Slots}

\* A mutation that is not wiped removed one of the two leaves of a trie.
WorkerRemovedLeaf ==
    /\ WorkerSentOk
    /\ ~worker.storage.wiped
    /\ \E slot \in DOMAIN worker.storage.storage :
          /\ worker.storage.storage[slot] = 0
          /\ GetLeafValue(worker.storage_trie[1], Unpack(slot)) # <<>>
    /\ worker.result.storage_trie.values # EmptyMap

\* A worker failed on a trie whose leaves are not revealed.
WorkerFailedOnBlindedNode ==
    /\ worker.status = "sent"
    /\ ~worker.result.ok
    /\ worker.storage_trie # None
    /\ IsRevealed(worker.storage_trie[1])


\* ------------------------------------------ properties of reveal_witness

\* The calls of reveal_witness made so far, and the nodes each has met.
WitnessCalls == {k \in 1..Len(api.log) : api.log[k].op.name = "reveal_witness"}

StepsOf(k) == api.log[k].op.steps

\* The node of the step was reached at a path that was revealed already.
AlreadyRevealed(s) ==
    IF s.maybe_account = <<>> THEN s.path \in s.before.revealed_account_paths
    ELSE /\ s.maybe_account[1] \in DOMAIN s.before.revealed_paths
         /\ s.path \in s.before.revealed_paths[s.maybe_account[1]]

\* The state trie after step i of call k.
AfterStep(k, i) ==
    IF i < Len(StepsOf(k)) THEN StepsOf(k)[i + 1].before ELSE api.log[k].trie

\* The path of step s is recorded in the state trie t.
Recorded(s, t) ==
    IF s.maybe_account = <<>> THEN s.path \in t.revealed_account_paths
    ELSE /\ s.maybe_account[1] \in DOMAIN t.revealed_paths
         /\ s.path \in t.revealed_paths[s.maybe_account[1]]

\* The trie a step is for, in the state trie t: the account trie, or the
\* storage trie of the account if it has one.
TrieOfStep(s, t) ==
    IF s.maybe_account = <<>> THEN <<t.state>>
    ELSE IF s.maybe_account[1] \in DOMAIN t.tries THEN <<t.tries[s.maybe_account[1]]>>
    ELSE <<>>

\* Step s, which left the state trie t, applied its node: the trie it is
\* for is revealed and is not as it was.
Applied(s, t) ==
    /\ TrieOfStep(s, t) # <<>>
    /\ IsRevealed(TrieOfStep(s, t)[1])
    /\ TrieOfStep(s, t) # TrieOfStep(s, s.before)

\* An earlier step of the call met the account leaf that owns the storage
\* root of step i, with a storage root that is not EMPTY_ROOT_HASH.
OwnerMet(steps, i) ==
    \E j \in 1..(i - 1) :
       /\ steps[j].maybe_account = <<>>
       /\ steps[j].node.kind = "Leaf"
       /\ Pack(steps[j].path \o steps[j].node.key) = steps[i].maybe_account[1]
       /\ DecodeAccount(steps[j].node.value).storage_root = steps[i].hash
       /\ steps[i].hash # EMPTY_ROOT_HASH

\* C35: reveal_witness applies no node at a path that is already revealed
\* (the state trie is as it was after such a node, and the node fails
\* nothing), records the path of every node it applies, and reaches a
\* storage root only from an account leaf whose storage_root is not
\* EMPTY_ROOT_HASH.
C35_WitnessRevealsEachPathOnce ==
    \A k \in WitnessCalls : \A i \in 1..Len(StepsOf(k)) :
       LET s == StepsOf(k)[i]
           after == AfterStep(k, i)
       IN  /\ AlreadyRevealed(s) /\ (s.maybe_account # <<>> \/ s.node.kind # "Leaf"
                                     \/ IsAccountRlp(s.node.value))
              => after = s.before /\ s.err = "Ok"
           /\ Applied(s, after) => Recorded(s, after)
           /\ s.err = "Ok" /\ ~AlreadyRevealed(s) => Recorded(s, after)
           /\ s.maybe_account # <<>> /\ s.path = <<>> => OwnerMet(StepsOf(k), i)

\* A witness was revealed on a trie that had the path of an account leaf
\* revealed and the leaf removed since: the leaf was not revealed again,
\* and a storage root of the witness was revealed.
C35_Witness ==
    /\ api.log # <<>>
    /\ Last.op.name = "reveal_witness"
    /\ Last.err = "Ok"
    /\ \E i \in 1..Len(Last.op.steps) :
          LET s == Last.op.steps[i]
          IN  /\ AlreadyRevealed(s)
              /\ s.maybe_account = <<>>
              /\ s.path # <<>>
              /\ s.path \notin DOMAIN s.before.state.nodes
    /\ \E i \in 1..Len(Last.op.steps) :
          /\ Last.op.steps[i].maybe_account # <<>>
          /\ Applied(Last.op.steps[i], AfterStep(Len(api.log), i))

\* A witness held the empty root node, and the account without storage was
\* given no storage trie.
WitnessSkippedEmptyStorage ==
    /\ api.log # <<>>
    /\ Last.op.name = "reveal_witness"
    /\ WitnessHas(Last.op.witness, EMPTY_ROOT_HASH)
    /\ \E i \in 1..Len(Last.op.steps) :
          LET s == Last.op.steps[i]
          IN  /\ s.maybe_account = <<>>
              /\ s.node.kind = "Leaf"
              /\ IsAccountRlp(s.node.value)
              /\ DecodeAccount(s.node.value).storage_root = EMPTY_ROOT_HASH
              /\ Pack(s.path \o s.node.key) \notin DOMAIN Last.trie.tries

\* A witness failed: on bytes that decode to no node or to no account, or
\* on a node of a storage trie that is blind.
WitnessFailed ==
    /\ api.log # <<>>
    /\ Last.op.name = "reveal_witness"
    /\ Last.err = "Blind"

WitnessFailedToDecode ==
    /\ api.log # <<>>
    /\ Last.op.name = "reveal_witness"
    /\ Last.err = "Rlp"

\* ------------------------------------------- properties of the coalescing

\* update_sparse_trie on one update, with every iteration and every finish
\* in ascending order.
RefBatch(t, u) ==
    LET ord == CHOOSE o \in RevealOrders(u.multiproof) : TRUE
        r == reveal_decoded_multiproof(t, u.multiproof, ord)
    IN  IF r.err # "Ok" THEN [trie |-> r.trie, err |-> r.err]
        ELSE RefUpdate(r.trie, u.state)

RECURSIVE RefRun(_, _)
\* The updates applied one per batch, in order, until one fails.
RefRun(t, updates) ==
    IF updates = <<>> THEN [trie |-> t, err |-> "Ok"]
    ELSE LET r == RefBatch(t, Head(updates))
         IN  IF r.err # "Ok" THEN r ELSE RefRun(r.trie, Tail(updates))

\* The key-to-value contents of a trie, and of the account trie and of
\* every storage trie of a sparse state trie.
LeavesOfTrie(t) == IF IsRevealed(t) THEN t.values ELSE EmptyMap

LeavesOf(t) ==
    [state |-> LeavesOfTrie(t.state),
     tries |-> [a \in DOMAIN t.tries |-> LeavesOfTrie(t.tries[a])]]

\* The run ended with a root, and so does the run of one update per batch.
BothRunsEnded ==
    /\ pc = "done" /\ outcome.kind = "Ok"
    /\ RefRun(DefaultStateTrie, sent).err = "Ok"
    /\ ~root_with_updates_panics(RefRun(DefaultStateTrie, sent).trie)

\* The run left the leaves and the state root of the run of one update per
\* batch.
SameAsOnePerBatch ==
    LET ref == root_with_updates(RefRun(DefaultStateTrie, sent).trie)
    IN  /\ LeavesOf(trie) = LeavesOf(ref.trie)
        /\ outcome.state_root = ref.state_root

WipesWritten(batch_parts, i) ==
    \E j \in 1..(i - 1) : \E a \in DOMAIN batch_parts[i].state.storages :
       /\ batch_parts[i].state.storages[a].wiped
       /\ a \in DOMAIN batch_parts[j].state.storages
       /\ batch_parts[j].state.storages[a].storage # EmptyMap

LateWipe ==
    \E k \in 1..Len(handed) : \E i \in 1..Len(handed[k].parts) :
       WipesWritten(handed[k].parts, i)

\* Where no batch merges a wipe into slots written before it, the
\* coalescing does not show.
CoalescingIsIrrelevantWithoutLateWipe ==
    (BothRunsEnded /\ ~LateWipe) => SameAsOnePerBatch

\* A run that coalesced two different updates into one batch and left what
\* the run of one update per batch leaves.
CoalescedAndSame ==
    /\ BothRunsEnded
    /\ SameAsOnePerBatch
    /\ Len(handed) = 1 /\ Len(handed[1].parts) = 2
    /\ handed[1].parts[1] # handed[1].parts[2]

\* A run that coalesced a wipe into the slots written before it: the slots
\* are in the storage trie, which one update per batch leaves empty.
WipeLostItsPlace ==
    /\ BothRunsEnded
    /\ LateWipe
    /\ \E a \in DOMAIN trie.tries :
          /\ LeavesOfTrie(trie.tries[a]) # EmptyMap
          /\ a \in DOMAIN RefRun(DefaultStateTrie, sent).trie.tries
          /\ LeavesOfTrie(RefRun(DefaultStateTrie, sent).trie.tries[a]) = EmptyMap

\* ------------------------------- properties of the storage tries held

\* C37 as stated: every storage trie in the container of the driver's trie
\* is revealed, whatever was revealed and put back, so that the unwrap of
\* storage_trie_updates does not panic when root_with_updates runs.
C37_StorageTriesAreRevealed ==
    /\ pc # "panicked"
    /\ \A address \in DOMAIN trie.tries : IsRevealed(trie.tries[address])

\* A reveal of a storage subtree without a root entry has put a Blind
\* storage trie into the container, and root_with_updates has panicked on
\* it.
PanickedOnBlindStorageTrie ==
    /\ pc = "panicked"
    /\ \E address \in DOMAIN trie.tries : ~IsRevealed(trie.tries[address])
    /\ \E k \in 1..Len(handed) : \E address \in DOMAIN handed[k].update.multiproof.storages :
          <<>> \notin DOMAIN handed[k].update.multiproof.storages[address]

\* ------------------------------------ properties of the revealed paths

\* Every path revealed in the state trie t is revealed in the state trie u.
PathsKept(t, u) ==
    /\ t.revealed_account_paths \subseteq u.revealed_account_paths
    /\ \A account \in DOMAIN t.revealed_paths :
          /\ account \in DOMAIN u.revealed_paths
          /\ t.revealed_paths[account] \subseteq u.revealed_paths[account]

NoPaths(t) == t.revealed_account_paths = {} /\ t.revealed_paths = EmptyMap

\* C38: no call but from_state_trie takes a path out of
\* revealed_account_paths or out of the revealed paths of a storage,
\* whether it succeeds, fails or panics; from_state_trie leaves no path.
C38_RevealedPathsOnlyGrow ==
    \A k \in 1..Len(api.log) :
       IF api.log[k].op.name = "from_state_trie"
       THEN NoPaths(api.log[k].trie)
       ELSE PathsKept(api.log[k].before, api.log[k].trie)

\* An account leaf was removed and a storage was wiped, and the paths
\* revealed before are all there, the path of the removed leaf and those of
\* the wiped storage among them.
C38_Witness ==
    /\ Len(api.log) >= 3
    /\ api.log[Len(api.log) - 1].op.name = "remove_account_leaf"
    /\ api.log[Len(api.log) - 1].err = "Ok"
    /\ api.log[Len(api.log) - 1].op.path \in api.trie.revealed_account_paths
    /\ Last.op.name = "wipe_storage"
    /\ Last.err = "Ok"
    /\ Last.op.address \in DOMAIN Last.before.tries
    /\ Last.op.address \in DOMAIN api.trie.revealed_paths
    /\ api.trie.revealed_paths[Last.op.address] # {}

\* from_state_trie emptied path sets that held paths.
PathsWereCleared ==
    /\ api.log # <<>>
    /\ Last.op.name = "from_state_trie"
    /\ ~NoPaths(Last.before)
    /\ NoPaths(api.trie)

\* A witness added paths to those a multiproof had revealed.
WitnessAddedPaths ==
    /\ api.log # <<>>
    /\ Last.op.name = "reveal_witness"
    /\ ~NoPaths(Last.before)
    /\ PathsKept(Last.before, api.trie)
    /\ ~PathsKept(api.trie, Last.before)

\* ------------------------------------------ properties of the table ring

\* The table is a static file table or a segment of the list.
InRange(table_ref, segments) ==
    table_ref.kind = "StaticFiles" \/ table_ref.index < Len(segments)

\* segments[index] of next_segment would be past the list.
IndexesPastTheList(r) == r.current.kind = "Other" /\ r.current.index >= Len(r.segments)

\* segments.len() - 1 of peek_next_table would be below zero.
PeekUnderflows(r) == r.current.kind = "Other" /\ Len(r.segments) = 0

\* C39: in every state of a TableRing that TableRing::new gave, however it
\* was walked, reset and left, current_table is a static file table or
\* Other(i) with i < segments.len(), and so are the start and the previous
\* table; next_segment does not index past the list and peek_next_table
\* does not underflow.
C39_CurrentTableIsInRange ==
    IsTableRing(pruner.ring) =>
       /\ InRange(pruner.ring.current, pruner.ring.segments)
       /\ InRange(pruner.ring.start, pruner.ring.segments)
       /\ pruner.ring.prev # None => InRange(pruner.ring.prev[1], pruner.ring.segments)
       /\ ~IndexesPastTheList(pruner.ring)
       /\ ~PeekUnderflows(pruner.ring)

\* A TableRing has stepped from the one but last to the last of its
\* segments.
C39_Witness ==
    /\ IsTableRing(pruner.ring)
    /\ Len(pruner.ring.segments) >= 2
    /\ pruner.ring.current = Other(Len(pruner.ring.segments) - 1)
    /\ pruner.ring.prev = Some(Other(Len(pruner.ring.segments) - 2))

\* A TableRing has stepped from its last segment to the static files.
SteppedPastLastSegment ==
    /\ IsTableRing(pruner.ring)
    /\ pruner.ring.segments # <<>>
    /\ pruner.ring.prev = Some(Other(Len(pruner.ring.segments) - 1))
    /\ pruner.ring.current.kind = "StaticFiles"

\* A TableRing without segments has stepped among the static files.
SteppedWithoutSegments ==
    /\ IsTableRing(pruner.ring)
    /\ pruner.ring.segments = <<>>
    /\ pruner.ring.prev # None

\* -------------------------------------- properties of the recycle pools

\* A trie that holds no node and no value.
HoldsNoNodes(t) == ~IsRevealed(t) \/ (DOMAIN t.nodes = {} /\ DOMAIN t.values = {})

\* The sequence s is the sequence t without some of its last items.
IsPrefixOf(s, t) == Len(s) <= Len(t) /\ s = SubSeq(t, 1, Len(s))

\* The accounts that have a trie, or a path set, in u and had none in t.
NewTries(t, u) == DOMAIN u.tries \ DOMAIN t.tries

NewPathSets(t, u) == DOMAIN u.revealed_paths \ DOMAIN t.revealed_paths

\* C40: every trie in cleared_tries holds no nodes and every set in
\* cleared_revealed_paths is empty; from_state_trie adds to the pools one
\* item for every trie and every path set the container held, and every
\* other call leaves the pools as they were but for the last items, of
\* which no more are gone than accounts were given a trie or a path set.
C40_PooledItemsAreEmpty ==
    /\ \A i \in 1..Len(api.trie.cleared_tries) : HoldsNoNodes(api.trie.cleared_tries[i])
    /\ \A i \in 1..Len(api.trie.cleared_revealed_paths) :
          api.trie.cleared_revealed_paths[i] = {}
    /\ \A k \in 1..Len(api.log) :
          LET t == api.log[k].before
              u == api.log[k].trie
          IN  IF api.log[k].op.name = "from_state_trie"
              THEN /\ IsPrefixOf(t.cleared_tries, u.cleared_tries)
                   /\ IsPrefixOf(t.cleared_revealed_paths, u.cleared_revealed_paths)
                   /\ Len(u.cleared_tries) =
                         Len(t.cleared_tries) + Cardinality(DOMAIN t.tries)
                   /\ Len(u.cleared_revealed_paths) =
                         Len(t.cleared_revealed_paths) + Cardinality(DOMAIN t.revealed_paths)
              ELSE /\ IsPrefixOf(u.cleared_tries, t.cleared_tries)
                   /\ IsPrefixOf(u.cleared_revealed_paths, t.cleared_revealed_paths)
                   /\ Len(t.cleared_tries) - Len(u.cleared_tries)
                         <= Cardinality(NewTries(t, u))
                   /\ Len(t.cleared_revealed_paths) - Len(u.cleared_revealed_paths)
                         <= Cardinality(NewPathSets(t, u))

\* A trie that held storage with nodes and paths was cleared, and the next
\* call took a trie and a path set out of the pools for an account.
C40_Witness ==
    /\ Len(api.log) >= 2
    /\ api.log[Len(api.log) - 1].op.name = "from_state_trie"
    /\ \E account \in DOMAIN api.log[Len(api.log) - 1].before.tries :
          /\ ~HoldsNoNodes(api.log[Len(api.log) - 1].before.tries[account])
          /\ account \in DOMAIN api.log[Len(api.log) - 1].before.revealed_paths
          /\ api.log[Len(api.log) - 1].before.revealed_paths[account] # {}
    /\ Len(api.trie.cleared_tries) < Len(Last.before.cleared_tries)
    /\ Len(api.trie.cleared_revealed_paths) < Len(Last.before.cleared_revealed_paths)
    /\ NewTries(Last.before, api.trie) # {}

\* The pools hold items after a call that took none.
PoolsWereLeftAlone ==
    /\ api.log # <<>>
    /\ Last.op.name # "from_state_trie"
    /\ api.trie.cleared_tries # <<>>
    /\ api.trie.cleared_revealed_paths # <<>>
    /\ api.trie.cleared_tries = Last.before.cleared_tries
    /\ api.trie.cleared_revealed_paths = Last.before.cleared_revealed_paths

\* A witness took a trie and a path set out of the pools.
WitnessTookFromPools ==
    /\ api.log # <<>>
    /\ Last.op.name = "reveal_witness"
    /\ Len(api.trie.cleared_tries) < Len(Last.before.cleared_tries)
    /\ Len(api.trie.cleared_revealed_paths) < Len(Last.before.cleared_revealed_paths)
====
